---------------------------- MODULE Spec2Model ----------------------------
(***************************************************************************)
(* Model of the timeinterval package (corthmann/go-time-intervals).        *)
(*                                                                         *)
(* Strings are sequences of one-character strings.  An instant (Go's       *)
(* time.Time, always in UTC here) is an integer number of ticks of 1/10 s  *)
(* since 2019-01-01T00:00:00Z; a time.Duration is an integer number of the *)
(* same ticks.  A Go pointer is a sequence of length 0 (nil) or 1.         *)
(* An error is a string, NoErr being Go's nil error.                       *)
(***************************************************************************)
EXTENDS Integers, Sequences, FiniteSets, TLC

\* op:    the parser or constructor the caller ran last ("init": none yet)
\* input: the string given to the parser
\* args:  the startsAt, endsAt, duration given to NewInterval
\* res:   the Interval and the error that were returned
\* at:    the instant of the last Started/Ended/In query
\* ans:   the answers to that query
\* iso:   the string and the error ISO8601() returned
VARIABLES op, input, args, res, at, ans, iso

vars == <<op, input, args, res, at, ans, iso>>

---------------------------------------------------------------------------
(* Pointers and errors *)

None == <<>>
Some(v) == <<v>>
IsNil(p) == p = <<>>
Val(p) == p[1]

NoErr == "nil"

---------------------------------------------------------------------------
(* Bounds of the model *)

\* largest count written in a generated duration group
MaxCount == 2
\* largest number of count-unit groups in a generated duration token
MaxGroups == 2
\* instants are taken 0..MaxSteps steps after the base instant
MaxSteps == 3

---------------------------------------------------------------------------
(* Go's time package, in ticks of 100 ms: fractions of a second are kept  *)
(* to their first digit.  Instants lie within a few years of 2019 so that *)
(* every tick count fits a 32-bit integer.                                 *)

Second == 1000 \div 100
Minute == 60 * Second
Hour == 60 * Minute
Day == 24 * Hour

durationWeek == 7 * 24 * Hour
durationDay == 24 * Hour

\* days from 1970-01-01 to the civil date y-m-d (proleptic Gregorian)
DaysFromCivil(y, m, d) ==
  LET yy == IF m <= 2 THEN y - 1 ELSE y
      era == yy \div 400
      yoe == yy - era * 400
      mp == IF m > 2 THEN m - 3 ELSE m + 9
      doy == (153 * mp + 2) \div 5 + d - 1
      doe == yoe * 365 + yoe \div 4 - yoe \div 100 + doy
  IN era * 146097 + doe - 719468

\* the civil date of the day z days after 1970-01-01
CivilFromDays(z) ==
  LET zz == z + 719468
      era == zz \div 146097
      doe == zz - era * 146097
      yoe == (doe - doe \div 1460 + doe \div 36524 - doe \div 146096) \div 365
      doy == doe - (365 * yoe + yoe \div 4 - yoe \div 100)
      mp == (5 * doy + 2) \div 153
      d == doy - (153 * mp + 2) \div 5 + 1
      m == IF mp < 10 THEN mp + 3 ELSE mp - 9
      y == yoe + era * 400 + (IF m <= 2 THEN 1 ELSE 0)
  IN [year |-> y, month |-> m, day |-> d]

EpochDays == DaysFromCivil(2019, 1, 1)

IsLeap(y) == (y % 4 = 0) /\ ((y % 100 # 0) \/ (y % 400 = 0))

DaysIn(m, y) ==
  IF m = 2 THEN (IF IsLeap(y) THEN 29 ELSE 28)
  ELSE IF m \in {4, 6, 9, 11} THEN 30 ELSE 31

\* time.Time.Add, Sub, Before, After, Equal
TimeAdd(t, d) == t + d
TimeSub(t, u) == t - u
Before(t, u) == t < u
After(t, u) == t > u
Equal(t, u) == t = u

---------------------------------------------------------------------------
(* Strings *)

DigitChars == <<"0", "1", "2", "3", "4", "5", "6", "7", "8", "9">>

IsDigit(c) == \E i \in 1..10 : DigitChars[i] = c

DigitVal(c) == (CHOOSE i \in 1..10 : DigitChars[i] = c) - 1

AllDigits(s) == \A i \in 1..Len(s) : IsDigit(s[i])

RECURSIVE DigitsValue(_)
DigitsValue(s) ==
  IF s = <<>> THEN 0
  ELSE 10 * DigitsValue(SubSeq(s, 1, Len(s) - 1)) + DigitVal(s[Len(s)])

RECURSIVE Itoa(_)
\* decimal digits of a natural number (fmt's %d)
Itoa(n) ==
  IF n < 10 THEN <<DigitChars[n + 1]>>
  ELSE Itoa(n \div 10) \o <<DigitChars[(n % 10) + 1]>>

\* n in exactly w digits, zero padded (n < 10^w)
RECURSIVE Pad(_, _)
Pad(n, w) == IF w = 0 THEN <<>> ELSE Pad(n \div 10, w - 1) \o <<DigitChars[(n % 10) + 1]>>

\* strings.HasPrefix with a one-character prefix
HasPrefix(s, c) == Len(s) >= 1 /\ s[1] = c

Drop(s, n) == SubSeq(s, n + 1, Len(s))

\* number of leading digits of s
RECURSIVE LeadingDigits(_)
LeadingDigits(s) ==
  IF s # <<>> /\ IsDigit(s[1]) THEN 1 + LeadingDigits(Tail(s)) ELSE 0

\* strings.Split(s, "/")
RECURSIVE Split(_)
Split(s) ==
  IF \A i \in 1..Len(s) : s[i] # "/" THEN <<s>>
  ELSE LET k == CHOOSE i \in 1..Len(s) :
                  s[i] = "/" /\ \A j \in 1..(i - 1) : s[j] # "/"
       IN <<SubSeq(s, 1, k - 1)>> \o Split(Drop(s, k))

RECURSIVE StripZeros(_)
StripZeros(s) == IF Len(s) > 1 /\ s[1] = "0" THEN StripZeros(Tail(s)) ELSE s

RECURSIVE DigitsLeq(_, _)
\* a <= b for digit strings of the same length
DigitsLeq(a, b) ==
  IF a = <<>> THEN TRUE
  ELSE IF DigitVal(a[1]) # DigitVal(b[1]) THEN DigitVal(a[1]) < DigitVal(b[1])
  ELSE DigitsLeq(Tail(a), Tail(b))

\* the largest int: 9223372036854775807
MaxInt64Digits ==
  <<"9","2","2","3","3","7","2","0","3","6","8","5","4","7","7","5","8","0","7">>

\* the digits of -n for the smallest int n: 9223372036854775808
MinInt64Digits ==
  <<"9","2","2","3","3","7","2","0","3","6","8","5","4","7","7","5","8","0","8">>

\* the largest uint64: 18446744073709551615
MaxUint64Digits ==
  <<"1","8","4","4","6","7","4","4","0","7","3","7","0","9","5","5","1","6","1","5">>

\* the digits sig, without leading zeros, denote a number above the largest uint64
ExceedsUint64(sig) ==
  \/ Len(sig) > Len(MaxUint64Digits)
  \/ Len(sig) = Len(MaxUint64Digits) /\ ~DigitsLeq(sig, MaxUint64Digits)

\* strconv.Atoi with a 64-bit int. The digits are read from the left: digits
\* that exceed 64 bits are reported before a character after them that is no
\* digit, and a number of digits only is then tested against the range of int.
\* n is the number, held in the model's integers; with an error the caller
\* does not read it
Atoi(s) ==
  LET neg == s # <<>> /\ s[1] = "-"
      body == IF s # <<>> /\ s[1] \in {"+", "-"} THEN Tail(s) ELSE s
      sig == StripZeros(body)
  IN IF body = <<>>
       THEN [n |-> 0, err |-> "strconv.Atoi: invalid syntax"]
     ELSE IF ExceedsUint64(StripZeros(SubSeq(body, 1, LeadingDigits(body))))
       THEN [n |-> 0, err |-> "strconv.Atoi: value out of range"]
     ELSE IF ~AllDigits(body)
       THEN [n |-> 0, err |-> "strconv.Atoi: invalid syntax"]
     ELSE IF \/ Len(sig) > Len(MaxInt64Digits)
             \/ /\ Len(sig) = Len(MaxInt64Digits)
                /\ ~DigitsLeq(sig, IF neg THEN MinInt64Digits ELSE MaxInt64Digits)
       THEN [n |-> 0, err |-> "strconv.Atoi: value out of range"]
     ELSE [n |-> (IF neg THEN 0 - DigitsValue(sig) ELSE DigitsValue(sig)), err |-> NoErr]

---------------------------------------------------------------------------
(* Timestamp codec *)

\* the two characters of s at positions i, i+1 are digits with lo <= value <= hi
TwoDigits(s, i, lo, hi) ==
  /\ IsDigit(s[i]) /\ IsDigit(s[i + 1])
  /\ LET v == 10 * DigitVal(s[i]) + DigitVal(s[i + 1]) IN lo <= v /\ v <= hi

\* the end of the pattern: (\.[0-9]+)?(Z)?$
MatchFractionAndZone(s) ==
  LET rest == IF HasPrefix(s, ".") /\ LeadingDigits(Tail(s)) >= 1
                THEN Drop(s, 1 + LeadingDigits(Tail(s)))
                ELSE s
  IN rest = <<>> \/ rest = <<"Z">>

\* regexTimeStringISO.MatchString(s)
regexTimeStringISO(s) ==
  LET body == IF HasPrefix(s, "-") THEN Tail(s) ELSE s
      n == LeadingDigits(body)
      r == Drop(body, n)
  IN /\ n >= 4
     /\ (n > 4 => body[1] # "0")
     /\ Len(r) >= 15
     /\ r[1] = "-" /\ TwoDigits(r, 2, 1, 12)
     /\ r[4] = "-" /\ TwoDigits(r, 5, 1, 31)
     /\ r[7] = "T" /\ TwoDigits(r, 8, 0, 23)
     /\ r[10] = ":" /\ TwoDigits(r, 11, 0, 59)
     /\ r[13] = ":" /\ TwoDigits(r, 14, 0, 59)
     /\ MatchFractionAndZone(Drop(r, 15))

\* the zone of an RFC 3339 timestamp, "Z" or a numeric offset: its seconds east;
\* the offset may be written with an hour up to 24 and a minute up to 60
ParseZone(z) ==
  IF z = <<"Z">> THEN [ok |-> TRUE, east |-> 0]
  ELSE IF /\ Len(z) = 6 /\ z[1] \in {"+", "-"} /\ z[4] = ":"
          /\ TwoDigits(z, 2, 0, 24) /\ TwoDigits(z, 5, 0, 60)
    THEN LET e == (10 * DigitVal(z[2]) + DigitVal(z[3])) * 3600
                  + (10 * DigitVal(z[5]) + DigitVal(z[6])) * 60
         IN [ok |-> TRUE, east |-> IF z[1] = "-" THEN 0 - e ELSE e]
    ELSE [ok |-> FALSE, east |-> 0]

\* the digits of the hour at the head of r: two, or one when no second digit follows
HourDigits(r) == IF Len(r) >= 2 /\ IsDigit(r[2]) THEN 2 ELSE 1

\* the characters of a fraction of a second at the head of r: a period or a
\* comma and the digits after it, none when no digit follows the mark
FractionChars(r) ==
  IF Len(r) >= 2 /\ r[1] \in {".", ","} /\ IsDigit(r[2])
    THEN 1 + LeadingDigits(Tail(r))
    ELSE 0

BadClock == [ok |-> FALSE, t |-> 0]

\* the clock once its zone is read: ticks is the time of day as written
clockInZone(ticks, zone) ==
  IF ~zone.ok THEN BadClock ELSE [ok |-> TRUE, t |-> ticks - zone.east * Second]

\* the clock after its seconds, rest being what follows them: the first digit
\* of a fraction is a tick, the others are below a tick
clockAfterSecond(ticks, rest) ==
  clockInZone(ticks + (IF FractionChars(rest) >= 2 THEN DigitVal(rest[2]) ELSE 0),
              ParseZone(Drop(rest, FractionChars(rest))))

\* the clock after its hour, m being what follows the hour
clockAfterHour(hour, m) ==
  IF ~(/\ hour <= 23
       /\ Len(m) >= 6
       /\ m[1] = ":" /\ TwoDigits(m, 2, 0, 59)
       /\ m[4] = ":" /\ TwoDigits(m, 5, 0, 59))
    THEN BadClock
    ELSE clockAfterSecond(hour * Hour
                            + (10 * DigitVal(m[2]) + DigitVal(m[3])) * Minute
                            + (10 * DigitVal(m[5]) + DigitVal(m[6])) * Second,
                          Drop(m, 6))

\* the clock and zone of a timestamp, r being what follows the "T": the ticks
\* since midnight UTC of that day
parseClock(r) ==
  IF ~(r # <<>> /\ IsDigit(r[1])) THEN BadClock
  ELSE clockAfterHour(DigitsValue(SubSeq(r, 1, HourDigits(r))), Drop(r, HourDigits(r)))

BadTime == [t |-> 0, err |-> "parsing time: cannot parse"]

\* the instant of a date and a clock that were read
timeOfDate(year, month, day, clock) ==
  IF ~clock.ok THEN BadTime
  ELSE IF day < 1 \/ day > DaysIn(month, year)
    THEN [t |-> 0, err |-> "parsing time: day out of range"]
    ELSE [t |-> (DaysFromCivil(year, month, day) - EpochDays) * Day + clock.t,
          err |-> NoErr]

\* time.Parse(time.RFC3339, s): the instant, or an error
parseTimeString(s) ==
  IF ~(/\ Len(s) >= 11
       /\ AllDigits(SubSeq(s, 1, 4))
       /\ s[5] = "-" /\ TwoDigits(s, 6, 1, 12)
       /\ s[8] = "-" /\ TwoDigits(s, 9, 0, 99)
       /\ s[11] = "T")
    THEN BadTime
    ELSE timeOfDate(DigitsValue(SubSeq(s, 1, 4)),
                    10 * DigitVal(s[6]) + DigitVal(s[7]),
                    10 * DigitVal(s[9]) + DigitVal(s[10]),
                    parseClock(Drop(s, 11)))

\* t.Format(time.RFC3339) of an instant in UTC: whole seconds, zone "Z"
FormatRFC3339(t) ==
  LET c == CivilFromDays(EpochDays + t \div Day)
      r == t % Day
  IN Pad(c.year, 4) \o <<"-">> \o Pad(c.month, 2) \o <<"-">> \o Pad(c.day, 2)
     \o <<"T">> \o Pad(r \div Hour, 2) \o <<":">> \o Pad((r % Hour) \div Minute, 2)
     \o <<":">> \o Pad((r % Minute) \div Second, 2) \o <<"Z">>

---------------------------------------------------------------------------
(* Duration codec *)

RECURSIVE parseDurationLoop(_, _, _, _, _)
\* the loop of parseDurationString over runes[i..]
parseDurationLoop(runes, i, d, countStr, currentCount) ==
  IF i > Len(runes) THEN [d |-> d, err |-> NoErr]
  ELSE IF runes[i] = "W"
    THEN parseDurationLoop(runes, i + 1, d + currentCount * durationWeek, <<>>, currentCount)
  ELSE IF runes[i] = "D"
    THEN parseDurationLoop(runes, i + 1, d + currentCount * durationDay, <<>>, currentCount)
  ELSE LET count == Atoi(Append(countStr, runes[i]))
       IN IF count.err # NoErr THEN [d |-> d, err |-> count.err]
          ELSE parseDurationLoop(runes, i + 1, d, Append(countStr, runes[i]), count.n)

\* a variant that reads the marker as part of the first count
parseDurationString_ReadsMarker(s) ==
  IF ~HasPrefix(s, "P") THEN [d |-> 0, err |-> "invalid duration format"]
  ELSE parseDurationLoop(s, 1, 0, <<>>, 1)

parseDurationString(s) ==
  IF ~HasPrefix(s, "P") THEN [d |-> 0, err |-> "invalid duration format"]
  ELSE parseDurationLoop(Tail(s), 1, 0, <<>>, 1)

\* The duration encoder durationToISO8601: weeks, then the days left over.
durationToISO8601(d) ==
  IF d < 0 \/ d % durationDay # 0
    THEN [s |-> <<>>, err |-> "unsupported duration"]
    ELSE LET w == d \div durationWeek
             r == (d % durationWeek) \div durationDay
         IN [s |-> <<"P">>
                   \o (IF w > 0 \/ r = 0 THEN Itoa(w) \o <<"W">> ELSE <<>>)
                   \o (IF r > 0 THEN Itoa(r) \o <<"D">> ELSE <<>>),
             err |-> NoErr]

---------------------------------------------------------------------------
(* Interval with optional fields: startsAt, endsAt, duration (interval.go) *)

PtrInterval_StartsAtDerivedFromDuration(in) ==
  IsNil(in.startsAt) /\ ~IsNil(in.endsAt) /\ ~IsNil(in.duration)

PtrInterval_EndsAtDerivedFromDuration(in) ==
  IsNil(in.endsAt) /\ ~IsNil(in.startsAt) /\ ~IsNil(in.duration)

PtrInterval_StartsAt(in) ==
  IF PtrInterval_StartsAtDerivedFromDuration(in)
    THEN Some(TimeAdd(Val(in.endsAt), 0 - Val(in.duration)))
    ELSE in.startsAt

PtrInterval_EndsAt(in) ==
  IF PtrInterval_EndsAtDerivedFromDuration(in)
    THEN Some(TimeAdd(Val(in.startsAt), Val(in.duration)))
    ELSE in.endsAt

PtrInterval_Duration(in) ==
  IF ~IsNil(in.duration) THEN in.duration
  ELSE IF IsNil(PtrInterval_StartsAt(in)) \/ IsNil(PtrInterval_EndsAt(in)) THEN None
  ELSE Some(TimeSub(Val(PtrInterval_EndsAt(in)), Val(PtrInterval_StartsAt(in))))

PtrInterval_Started(in, t) ==
  IF IsNil(in.startsAt) THEN TRUE
  ELSE Before(Val(in.startsAt), t) \/ Equal(Val(in.startsAt), t)

PtrInterval_Ended(in, t) ==
  IF IsNil(in.endsAt) THEN FALSE
  ELSE Before(Val(in.endsAt), t)

PtrInterval_In(in, t) == PtrInterval_Started(in, t) /\ ~PtrInterval_Ended(in, t)

Panic == [s |-> <<>>, err |-> "panic: nil pointer dereference"]

PtrInterval_ISO8601(in) ==
  LET startsAt == PtrInterval_StartsAt(in)
      endsAt == PtrInterval_EndsAt(in)
  IN IF PtrInterval_StartsAtDerivedFromDuration(in)
       THEN LET e == durationToISO8601(Val(in.duration))
            IN IF e.err # NoErr THEN [s |-> <<>>, err |-> e.err]
               ELSE [s |-> e.s \o <<"/">> \o FormatRFC3339(Val(endsAt)), err |-> NoErr]
     ELSE IF PtrInterval_EndsAtDerivedFromDuration(in)
       THEN LET e == durationToISO8601(Val(in.duration))
            IN IF e.err # NoErr THEN [s |-> <<>>, err |-> e.err]
               ELSE [s |-> FormatRFC3339(Val(startsAt)) \o <<"/">> \o e.s, err |-> NoErr]
     ELSE IF IsNil(startsAt) \/ IsNil(endsAt) THEN Panic
     ELSE [s |-> FormatRFC3339(Val(startsAt)) \o <<"/">> \o FormatRFC3339(Val(endsAt)),
           err |-> NoErr]

---------------------------------------------------------------------------
(* Interval with a format tag: Format, StartsAt, EndsAt (part_000) *)

ISOFormatUnknown == 0
ISOFormatTimeAndTime == 1
ISOFormatTimeAndDuration == 2
ISOFormatDurationAndTime == 3

Interval_Validate(in) ==
  IF Before(in.EndsAt, in.StartsAt) THEN "interval must start before it ends"
  ELSE IF in.Format = ISOFormatUnknown THEN "unknown ISO8601 output format"
  ELSE NoErr

MkInterval(f, s, e) == [Format |-> f, StartsAt |-> s, EndsAt |-> e]

\* a variant that never records the shape with a duration
NewInterval_TagTimeAndTime(startsAt, endsAt, duration) ==
  IF IsNil(startsAt) /\ IsNil(endsAt) THEN [in |-> None, err |-> "invalid interval"]
  ELSE IF ~IsNil(startsAt) /\ ~IsNil(endsAt)
    THEN LET in == MkInterval(ISOFormatTimeAndTime, Val(startsAt), Val(endsAt))
         IN [in |-> Some(in), err |-> Interval_Validate(in)]
  ELSE IF IsNil(duration) THEN [in |-> None, err |-> "invalid interval"]
  ELSE LET in == IF ~IsNil(startsAt)
                   THEN MkInterval(ISOFormatTimeAndTime, Val(startsAt),
                                   TimeAdd(Val(startsAt), Val(duration)))
                   ELSE MkInterval(ISOFormatTimeAndTime,
                                   TimeAdd(Val(endsAt), 0 - Val(duration)), Val(endsAt))
       IN [in |-> Some(in), err |-> Interval_Validate(in)]

\* a variant that derives the start on the wrong side of the end
NewInterval_StartPastEnd(startsAt, endsAt, duration) ==
  IF IsNil(startsAt) /\ IsNil(endsAt) THEN [in |-> None, err |-> "invalid interval"]
  ELSE IF ~IsNil(startsAt) /\ ~IsNil(endsAt)
    THEN LET in == MkInterval(ISOFormatTimeAndTime, Val(startsAt), Val(endsAt))
         IN [in |-> Some(in), err |-> Interval_Validate(in)]
  ELSE IF IsNil(duration) THEN [in |-> None, err |-> "invalid interval"]
  ELSE LET in == IF ~IsNil(startsAt)
                   THEN MkInterval(ISOFormatTimeAndDuration, Val(startsAt),
                                   TimeAdd(Val(startsAt), Val(duration)))
                   ELSE MkInterval(ISOFormatDurationAndTime,
                                   TimeAdd(Val(endsAt), Val(duration)), Val(endsAt))
       IN [in |-> Some(in), err |-> Interval_Validate(in)]

\* a variant that takes an absent duration for a duration of zero
NewInterval_AbsentDurationIsZero(startsAt, endsAt, duration) ==
  IF IsNil(startsAt) /\ IsNil(endsAt) THEN [in |-> None, err |-> "invalid interval"]
  ELSE IF ~IsNil(startsAt) /\ ~IsNil(endsAt)
    THEN LET in == MkInterval(ISOFormatTimeAndTime, Val(startsAt), Val(endsAt))
         IN [in |-> Some(in), err |-> Interval_Validate(in)]
  ELSE LET d == IF IsNil(duration) THEN 0 ELSE Val(duration)
           in == IF ~IsNil(startsAt)
                   THEN MkInterval(ISOFormatTimeAndDuration, Val(startsAt),
                                   TimeAdd(Val(startsAt), d))
                   ELSE MkInterval(ISOFormatDurationAndTime,
                                   TimeAdd(Val(endsAt), 0 - d), Val(endsAt))
       IN [in |-> Some(in), err |-> Interval_Validate(in)]

NewInterval(startsAt, endsAt, duration) ==
  IF IsNil(startsAt) /\ IsNil(endsAt) THEN [in |-> None, err |-> "invalid interval"]
  ELSE IF ~IsNil(startsAt) /\ ~IsNil(endsAt)
    THEN LET in == MkInterval(ISOFormatTimeAndTime, Val(startsAt), Val(endsAt))
         IN [in |-> Some(in), err |-> Interval_Validate(in)]
  ELSE IF IsNil(duration) THEN [in |-> None, err |-> "invalid interval"]
  ELSE LET in == IF ~IsNil(startsAt)
                   THEN MkInterval(ISOFormatTimeAndDuration, Val(startsAt),
                                   TimeAdd(Val(startsAt), Val(duration)))
                   ELSE MkInterval(ISOFormatDurationAndTime,
                                   TimeAdd(Val(endsAt), 0 - Val(duration)), Val(endsAt))
       IN [in |-> Some(in), err |-> Interval_Validate(in)]

Interval_Duration(in) == TimeSub(in.EndsAt, in.StartsAt)

Interval_Started(in, t) == Before(in.StartsAt, t) \/ Equal(in.StartsAt, t)

\* a variant that counts the end instant itself as ended
Interval_Ended_AtEnd(in, t) == ~Before(t, in.EndsAt)

Interval_Ended(in, t) == Before(in.EndsAt, t)

Interval_In(in, t) == Interval_Started(in, t) /\ ~Interval_Ended(in, t)

Interval_ISO8601(in) ==
  IF in.Format = ISOFormatDurationAndTime
    THEN LET d == durationToISO8601(Interval_Duration(in))
         IN IF d.err # NoErr THEN [s |-> <<>>, err |-> d.err]
            ELSE [s |-> d.s \o <<"/">> \o FormatRFC3339(in.EndsAt), err |-> NoErr]
  ELSE IF in.Format = ISOFormatTimeAndDuration
    THEN LET d == durationToISO8601(Interval_Duration(in))
         IN IF d.err # NoErr THEN [s |-> <<>>, err |-> d.err]
            ELSE [s |-> FormatRFC3339(in.StartsAt) \o <<"/">> \o d.s, err |-> NoErr]
  ELSE [s |-> FormatRFC3339(in.StartsAt) \o <<"/">> \o FormatRFC3339(in.EndsAt),
        err |-> NoErr]

---------------------------------------------------------------------------
(* Interval parser *)

typeUnknown == 0
typeTime == 1
typeDuration == 2

\* a variant that takes a part for a duration only if it decodes as one
identifyType_DecodableDuration(s) ==
  IF regexTimeStringISO(s) THEN [ft |-> typeTime, err |-> NoErr]
  ELSE IF HasPrefix(s, "P") /\ parseDurationString(s).err = NoErr
    THEN [ft |-> typeDuration, err |-> NoErr]
  ELSE [ft |-> typeUnknown, err |-> "invalid/unknown format"]

identifyType(s) ==
  IF regexTimeStringISO(s) THEN [ft |-> typeTime, err |-> NoErr]
  ELSE IF HasPrefix(s, "P") THEN [ft |-> typeDuration, err |-> NoErr]
  ELSE [ft |-> typeUnknown, err |-> "invalid/unknown format"]

RECURSIVE identifyIntervalTypesLoop(_, _, _)
identifyIntervalTypesLoop(parts, i, types) ==
  IF i > Len(parts) THEN [types |-> types, err |-> NoErr]
  ELSE LET r == identifyType(parts[i])
       IN IF r.err # NoErr THEN [types |-> <<>>, err |-> r.err]
          ELSE IF r.ft = typeUnknown THEN [types |-> types, err |-> "unvalid interval format"]
          ELSE identifyIntervalTypesLoop(parts, i + 1, Append(types, r.ft))

identifyIntervalTypes(parts) == identifyIntervalTypesLoop(parts, 1, <<>>)

\* a variant that only asks for at least two parts
invalidPartCount_FewerThanTwo(parts) == Len(parts) < 2

\* the test on the result of strings.Split
invalidPartCount(parts) == Len(parts) # 2

NoParts == [startsAt |-> None, endsAt |-> None, duration |-> None]

RECURSIVE decodeParts(_, _, _, _)
\* the decoding loop of ParseIntervalISO8601; parts[i] is Go's parts[i-1]
decodeParts(parts, partTypes, i, in) ==
  IF i > Len(partTypes) THEN [in |-> in, err |-> NoErr]
  ELSE IF partTypes[i] = typeDuration
    THEN LET d == parseDurationString(parts[i])
         IN IF d.err # NoErr THEN [in |-> in, err |-> d.err]
            ELSE decodeParts(parts, partTypes, i + 1, [in EXCEPT !.duration = Some(d.d)])
  ELSE IF partTypes[i] = typeTime
    THEN LET t == parseTimeString(parts[i])
         IN IF t.err # NoErr THEN [in |-> in, err |-> t.err]
            ELSE decodeParts(parts, partTypes, i + 1,
                             IF i = 1 THEN [in EXCEPT !.startsAt = Some(t.t)]
                                      ELSE [in EXCEPT !.endsAt = Some(t.t)])
  ELSE decodeParts(parts, partTypes, i + 1, in)

\* ParseIntervalISO8601 up to the construction of the Interval; stage is the
\* step of the function that returned
parseIntervalParts(s) ==
  LET parts == Split(s)
  IN IF invalidPartCount(parts)
       THEN [in |-> NoParts, err |-> "invalid interval format", stage |-> "split"]
     ELSE LET pt == identifyIntervalTypes(parts)
          IN IF pt.err # NoErr THEN [in |-> NoParts, err |-> pt.err, stage |-> "identify"]
             ELSE IF pt.types[1] = typeDuration /\ pt.types[2] = typeDuration
               THEN [in |-> NoParts, err |-> "interval cannot consist of two durations",
                     stage |-> "durations"]
             ELSE LET d == decodeParts(parts, pt.types, 1, NoParts)
                  IN [in |-> d.in, err |-> d.err, stage |-> "decode"]

\* the returns of ParseIntervalISO8601, p being the outcome of its decoding
intervalOfParts(p) ==
  IF p.err # NoErr THEN [kind |-> "ptr", in |-> None, err |-> p.err, stage |-> p.stage]
  ELSE [kind |-> "ptr", in |-> Some(p.in), err |-> NoErr, stage |-> "done"]

\* ParseIntervalISO8601 of timeinterval.go: the Interval holds the decoded fields
\* a variant that also stores the span of a time/time string as its duration
ParseIntervalISO8601_StoresSpan(s) ==
  LET p == parseIntervalParts(s)
  IN IF p.err # NoErr THEN [kind |-> "ptr", in |-> None, err |-> p.err, stage |-> p.stage]
     ELSE [kind |-> "ptr",
           in |-> Some([p.in EXCEPT !.duration =
                          IF IsNil(p.in.duration)
                            THEN Some(Val(p.in.endsAt) - Val(p.in.startsAt))
                            ELSE p.in.duration]),
           err |-> NoErr, stage |-> "done"]

ParseIntervalISO8601(s) == intervalOfParts(parseIntervalParts(s))

\* what the caller of NewInterval holds, n being what NewInterval returned
returned(kind, n) == [kind |-> kind, in |-> n.in, err |-> n.err, stage |-> "NewInterval"]

\* the returns of the parser that ends in NewInterval(startsAt, endsAt, duration)
newIntervalOfParts(p) ==
  IF p.err # NoErr THEN [kind |-> "tag", in |-> None, err |-> p.err, stage |-> p.stage]
  ELSE returned("tag", NewInterval(p.in.startsAt, p.in.endsAt, p.in.duration))

\* ParseIntervalISO8601 ending in NewInterval(startsAt, endsAt, duration)
ParseIntervalISO8601_NewInterval(s) == newIntervalOfParts(parseIntervalParts(s))

---------------------------------------------------------------------------
(* The Interval that keeps its string: the fields iso8601, StartsAt and      *)
(* EndsAt. Its Duration, Started, Ended and In read StartsAt and EndsAt as   *)
(* those of the Interval with a format tag do                               *)

MkStoredInterval(iso8601, s, e) == [iso8601 |-> iso8601, StartsAt |-> s, EndsAt |-> e]

\* len(s) > 1, len counting bytes: a character at or above U+0080 has two or more
LongerThanOneByte(s) == Len(s) > 1 \/ (Len(s) = 1 /\ s[1] = "U+")

\* the string kept, or the two bounds when none was kept
StoredInterval_ISO8601(in) ==
  IF LongerThanOneByte(in.iso8601) THEN in.iso8601
  ELSE FormatRFC3339(in.StartsAt) \o <<"/">> \o FormatRFC3339(in.EndsAt)

\* the end of NewInterval: in.iso8601 is the string given, or in.ISO8601()
\* when none is given
keepISO8601(in, iso8601) ==
  [in EXCEPT !.iso8601 = IF IsNil(iso8601) THEN StoredInterval_ISO8601(in) ELSE Val(iso8601)]

\* NewInterval(startsAt, endsAt, duration, iso8601): the bounds are not
\* compared, and an Interval is returned with no error
StoredInterval_NewInterval(startsAt, endsAt, duration, iso8601) ==
  IF IsNil(startsAt) /\ IsNil(endsAt) THEN [in |-> None, err |-> "invalid interval"]
  ELSE IF ~IsNil(startsAt) /\ ~IsNil(endsAt)
    THEN [in |-> Some(keepISO8601(MkStoredInterval(<<>>, Val(startsAt), Val(endsAt)), iso8601)),
          err |-> NoErr]
  ELSE IF IsNil(duration) THEN [in |-> None, err |-> "invalid interval"]
  ELSE LET in == IF ~IsNil(startsAt)
                   THEN MkStoredInterval(<<>>, Val(startsAt),
                                         TimeAdd(Val(startsAt), Val(duration)))
                   ELSE MkStoredInterval(<<>>, TimeAdd(Val(endsAt), 0 - Val(duration)),
                                         Val(endsAt))
       IN [in |-> Some(keepISO8601(in, iso8601)), err |-> NoErr]

\* ParseIntervalISO8601 ending in NewInterval(startsAt, endsAt, duration, &s)
storedIntervalOfParts(s, p) ==
  IF p.err # NoErr THEN [kind |-> "iso", in |-> None, err |-> p.err, stage |-> p.stage]
  ELSE returned("iso", StoredInterval_NewInterval(p.in.startsAt, p.in.endsAt, p.in.duration,
                                                  Some(s)))

ParseIntervalISO8601_Stored(s) == storedIntervalOfParts(s, parseIntervalParts(s))

---------------------------------------------------------------------------
(* Repetition counts: Go's uint32, held as two 16-bit limbs so that every   *)
(* value up to 2^32 - 1 is representable                                    *)

Limb == 256 * 256

Uint32(n) == [hi |-> n \div Limb, lo |-> n % Limb]

\* time.Duration(u), for a count below 2^31
Uint32Value(u) == u.hi * Limb + u.lo

RECURSIVE DigitsModUint32(_, _)
\* the value of the decimal digits s after the value u, modulo 2^32
DigitsModUint32(s, u) ==
  IF s = <<>> THEN u
  ELSE LET lo == u.lo * 10 + DigitVal(s[1])
           hi == u.hi * 10 + lo \div Limb
       IN DigitsModUint32(Tail(s), [hi |-> hi % Limb, lo |-> lo % Limb])

\* the two's complement of u: uint32(-n) for u = uint32(n)
NegUint32(u) ==
  [hi |-> (Limb - u.hi - (IF u.lo # 0 THEN 1 ELSE 0)) % Limb,
   lo |-> (Limb - u.lo) % Limb]

RECURSIVE FormatUint32(_)
\* fmt's %d of a uint32
FormatUint32(u) ==
  LET t == (u.hi % 10) * Limb + u.lo
      q == [hi |-> u.hi \div 10, lo |-> t \div 10]
  IN IF q.hi = 0 /\ q.lo = 0 THEN <<DigitChars[(t % 10) + 1]>>
     ELSE FormatUint32(q) \o <<DigitChars[(t % 10) + 1]>>

\* uint32(n) for n, err := strconv.Atoi(s), with a 64-bit int; the digits are
\* read from the left, so digits that exceed 64 bits are reported before a
\* character after them that is no digit
AtoiUint32(s) ==
  LET neg == s # <<>> /\ s[1] = "-"
      body == IF s # <<>> /\ s[1] \in {"+", "-"} THEN Tail(s) ELSE s
      sig == StripZeros(body)
      zero == Uint32(0)
  IN IF body = <<>>
       THEN [u |-> zero, err |-> "strconv.Atoi: invalid syntax"]
     ELSE IF ExceedsUint64(StripZeros(SubSeq(body, 1, LeadingDigits(body))))
       THEN [u |-> zero, err |-> "strconv.Atoi: value out of range"]
     ELSE IF ~AllDigits(body)
       THEN [u |-> zero, err |-> "strconv.Atoi: invalid syntax"]
     ELSE IF \/ Len(sig) > Len(MaxInt64Digits)
             \/ /\ Len(sig) = Len(MaxInt64Digits)
                /\ ~DigitsLeq(sig, IF neg THEN MinInt64Digits ELSE MaxInt64Digits)
       THEN [u |-> zero, err |-> "strconv.Atoi: value out of range"]
     ELSE LET u == DigitsModUint32(sig, zero)
          IN [u |-> IF neg THEN NegUint32(u) ELSE u, err |-> NoErr]

\* strings.SplitN(s, "/", 2)
SplitN2(s) ==
  IF \A i \in 1..Len(s) : s[i] # "/" THEN <<s>>
  ELSE LET k == CHOOSE i \in 1..Len(s) :
                  s[i] = "/" /\ \A j \in 1..(i - 1) : s[j] # "/"
       IN <<SubSeq(s, 1, k - 1), Drop(s, k)>>

Abs(x) == IF x < 0 THEN 0 - x ELSE x

\* Go's a % b: the remainder has the sign of a
GoRem(a, b) == IF a < 0 THEN 0 - (Abs(a) % Abs(b)) ELSE a % Abs(b)

\* the answer of Next: a *time.Time, or the panic of a nil dereference
NextIs(p) == [t |-> p, panic |-> FALSE]
NextPanics == [t |-> None, panic |-> TRUE]

---------------------------------------------------------------------------
(* Repeating over an Interval with optional fields: Interval, RepeatEvery,  *)
(* Repetitions (repeating.go)                                               *)

PtrRepeating_isStartsAtBoundedByRepetitions(in) ==
  /\ ~IsNil(in.Repetitions)
  /\ IsNil(PtrInterval_StartsAt(in.Interval))
  /\ ~IsNil(PtrInterval_EndsAt(in.Interval))

PtrRepeating_isEndsAtBoundedByRepetitions(in) ==
  /\ ~IsNil(in.Repetitions)
  /\ IsNil(PtrInterval_EndsAt(in.Interval))
  /\ ~IsNil(PtrInterval_StartsAt(in.Interval))

PtrRepeating_StartsAt(in) ==
  IF PtrRepeating_isStartsAtBoundedByRepetitions(in)
    THEN Some(TimeAdd(Val(PtrInterval_EndsAt(in.Interval)),
                      (0 - Uint32Value(Val(in.Repetitions))) * in.RepeatEvery))
    ELSE PtrInterval_StartsAt(in.Interval)

PtrRepeating_EndsAt(in) ==
  IF PtrRepeating_isEndsAtBoundedByRepetitions(in)
    THEN Some(TimeAdd(Val(PtrInterval_StartsAt(in.Interval)),
                      Uint32Value(Val(in.Repetitions)) * in.RepeatEvery))
    ELSE PtrInterval_EndsAt(in.Interval)

PtrRepeating_Duration(in) ==
  IF IsNil(PtrRepeating_StartsAt(in)) \/ IsNil(PtrRepeating_EndsAt(in)) THEN None
  ELSE Some(TimeSub(Val(PtrRepeating_EndsAt(in)), Val(PtrRepeating_StartsAt(in))))

PtrRepeating_Started(in, t) ==
  IF PtrRepeating_isStartsAtBoundedByRepetitions(in)
    THEN Equal(t, Val(PtrRepeating_StartsAt(in))) \/ After(t, Val(PtrRepeating_StartsAt(in)))
    ELSE PtrInterval_Started(in.Interval, t)

PtrRepeating_Ended(in, t) ==
  IF PtrRepeating_isEndsAtBoundedByRepetitions(in)
    THEN After(t, Val(PtrRepeating_EndsAt(in)))
    ELSE PtrInterval_Ended(in.Interval, t)

PtrRepeating_In(in, t) == PtrRepeating_Started(in, t) /\ ~PtrRepeating_Ended(in, t)

PtrRepeating_Next(in, t) ==
  IF ~PtrRepeating_Started(in, t) THEN NextIs(PtrRepeating_StartsAt(in))
  ELSE IF PtrRepeating_Ended(in, t) \/ in.RepeatEvery = 0 THEN NextIs(None)
  ELSE IF IsNil(PtrRepeating_StartsAt(in)) THEN NextPanics
  ELSE LET diff == TimeSub(t, Val(PtrRepeating_StartsAt(in)))
           mod == GoRem(diff, in.RepeatEvery)
           nxt == TimeAdd(t, in.RepeatEvery - mod)
       IN IF PtrRepeating_Ended(in, nxt) THEN NextIs(None) ELSE NextIs(Some(nxt))

\* fmt.Sprintf("R%d/%s/%s", ...) or fmt.Sprintf("R/%s/%s", ...)
SprintfRepeating(repetitions, startString, endString) ==
  <<"R">> \o (IF IsNil(repetitions) THEN <<>> ELSE FormatUint32(Val(repetitions)))
  \o <<"/">> \o startString \o <<"/">> \o endString

PtrRepeating_ISO8601(in) ==
  LET startsAt == PtrInterval_StartsAt(in.Interval)
      endsAt == PtrInterval_EndsAt(in.Interval)
  IN IF PtrInterval_StartsAtDerivedFromDuration(in.Interval)
       THEN LET e == durationToISO8601(in.RepeatEvery)
            IN IF e.err # NoErr THEN [s |-> <<>>, err |-> e.err]
               ELSE [s |-> SprintfRepeating(in.Repetitions, e.s, FormatRFC3339(Val(endsAt))),
                     err |-> NoErr]
     ELSE IF PtrInterval_EndsAtDerivedFromDuration(in.Interval)
       THEN LET e == durationToISO8601(in.RepeatEvery)
            IN IF e.err # NoErr THEN [s |-> <<>>, err |-> e.err]
               ELSE [s |-> SprintfRepeating(in.Repetitions, FormatRFC3339(Val(startsAt)), e.s),
                     err |-> NoErr]
     ELSE IF IsNil(startsAt) \/ IsNil(endsAt) THEN Panic
     ELSE [s |-> SprintfRepeating(in.Repetitions, FormatRFC3339(Val(startsAt)),
                                  FormatRFC3339(Val(endsAt))),
           err |-> NoErr]

---------------------------------------------------------------------------
(* Repeating over an Interval with the fields StartsAt and EndsAt, the one   *)
(* with a format tag or the one that keeps its string: the methods read the *)
(* Interval and Repetitions (part_005)                                      *)

Repeating_RepeatEvery(r) == Interval_Duration(r.Interval)

\* a variant that anchors a counted series at the end of its Interval
Repeating_StartsAt_FromEnd(in) ==
  IF IsNil(in.Repetitions) THEN None
  ELSE Some(TimeAdd(in.Interval.EndsAt,
                    (0 - Uint32Value(Val(in.Repetitions))) * Repeating_RepeatEvery(in)))

Repeating_StartsAt(in) ==
  IF IsNil(in.Repetitions) THEN None ELSE Some(in.Interval.StartsAt)

Repeating_EndsAt(in) ==
  IF IsNil(in.Repetitions) THEN None
  ELSE Some(TimeAdd(in.Interval.StartsAt,
                    Uint32Value(Val(in.Repetitions)) * Repeating_RepeatEvery(in)))

Repeating_Duration(in) ==
  IF IsNil(Repeating_StartsAt(in)) \/ IsNil(Repeating_EndsAt(in)) THEN None
  ELSE Some(TimeSub(Val(Repeating_EndsAt(in)), Val(Repeating_StartsAt(in))))

Repeating_Started(in, t) ==
  IF IsNil(Repeating_StartsAt(in)) THEN TRUE
  ELSE Equal(t, Val(Repeating_StartsAt(in))) \/ After(t, Val(Repeating_StartsAt(in)))

Repeating_Ended(in, t) ==
  IF IsNil(Repeating_EndsAt(in)) THEN FALSE
  ELSE After(t, Val(Repeating_EndsAt(in)))

Repeating_In(in, t) == Repeating_Started(in, t) /\ ~Repeating_Ended(in, t)

\* a variant that answers the first boundary after the start to an early caller
Repeating_Next_SkipsStart(in, t) ==
  IF ~Repeating_Started(in, t)
    THEN NextIs(Some(TimeAdd(Val(Repeating_StartsAt(in)), Repeating_RepeatEvery(in))))
  ELSE IF Repeating_Ended(in, t) \/ Repeating_RepeatEvery(in) = 0 THEN NextIs(None)
  ELSE LET diff == TimeSub(t, in.Interval.StartsAt)
           mod == GoRem(diff, Repeating_RepeatEvery(in))
           nxt == TimeAdd(t, Repeating_RepeatEvery(in) - mod)
       IN IF Repeating_Ended(in, nxt) THEN NextIs(None) ELSE NextIs(Some(nxt))

Repeating_Next(in, t) ==
  IF ~Repeating_Started(in, t) THEN NextIs(Repeating_StartsAt(in))
  ELSE IF Repeating_Ended(in, t) \/ Repeating_RepeatEvery(in) = 0 THEN NextIs(None)
  ELSE LET diff == TimeSub(t, in.Interval.StartsAt)
           mod == GoRem(diff, Repeating_RepeatEvery(in))
           nxt == TimeAdd(t, Repeating_RepeatEvery(in) - mod)
       IN IF Repeating_Ended(in, nxt) THEN NextIs(None) ELSE NextIs(Some(nxt))

Repeating_ISO8601(in) ==
  LET i == Interval_ISO8601(in.Interval)
  IN IF i.err # NoErr THEN [s |-> <<>>, err |-> i.err]
     ELSE [s |-> <<"R">>
                 \o (IF IsNil(in.Repetitions) THEN <<>> ELSE FormatUint32(Val(in.Repetitions)))
                 \o <<"/">> \o i.s,
           err |-> NoErr]

---------------------------------------------------------------------------
(* Repeating parser (timeinterval.go) *)

RepeatingFailure(e, st) == [kind |-> "rptr", in |-> None, err |-> e, stage |-> st]

\* the end of ParseRepeatingIntervalISO8601: n and repetitions are the decoded
\* count, in is the result of ParseIntervalISO8601(intervalString)
repeatingOfParts(n, repetitions, in) ==
  IF n.err # NoErr THEN RepeatingFailure(n.err, "count")
  ELSE IF in.err # NoErr THEN RepeatingFailure(in.err, "interval")
  ELSE [kind |-> "rptr",
        in |-> Some([Interval |-> Val(in.in),
                     RepeatEvery |-> IF IsNil(PtrInterval_Duration(Val(in.in))) THEN 0
                                     ELSE Val(PtrInterval_Duration(Val(in.in))),
                     Repetitions |-> repetitions]),
        err |-> NoErr, stage |-> "done"]

\* the decoding of the count of ParseRepeatingIntervalISO8601
repetitionsOf(repetitionString) ==
  IF Len(repetitionString) > 1
    THEN AtoiUint32(Tail(repetitionString))
    ELSE [u |-> Uint32(0), err |-> NoErr]

\* ParseRepeatingIntervalISO8601 after the split into its two parts
parseRepeatingParts(repetitionString, intervalString, n) ==
  repeatingOfParts(n,
                   IF Len(repetitionString) > 1 THEN Some(n.u) ELSE None,
                   ParseIntervalISO8601(intervalString))

\* ParseRepeatingIntervalISO8601; stage is the step that returned, "panic"
\* when the function did not return: parts[1] of a one-element slice
ParseRepeatingIntervalISO8601(s) ==
  IF ~HasPrefix(s, "R") THEN RepeatingFailure("invalid repeating interval format", "prefix")
  ELSE IF Len(SplitN2(s)) < 2 THEN RepeatingFailure("panic: index out of range", "panic")
  ELSE parseRepeatingParts(SplitN2(s)[1], SplitN2(s)[2], repetitionsOf(SplitN2(s)[1]))

---------------------------------------------------------------------------
(* Inputs *)

TsStart == <<"2","0","1","9","-","0","1","-","0","2","T","2","1",":","0","0",":","0","0","Z">>
TsEnd == <<"2","0","2","2","-","0","1","-","0","3","T","2","1",":","0","0",":","0","0","Z">>
TsFraction == <<"2","0","1","9","-","0","1","-","0","2","T","2","1",":","0","0",":","0","0",".","5","Z">>
TsOffset == <<"2","0","1","9","-","0","1","-","0","2","T","2","1",":","0","0",":","0","0","+","0","1",":","0","0">>
TsNoZone == <<"2","0","1","9","-","0","1","-","0","2","T","2","1",":","0","0",":","0","0">>
TsBadDay == <<"2","0","1","9","-","0","2","-","3","0","T","2","1",":","0","0",":","0","0","Z">>
TsLongYear == <<"1","2","0","1","9","-","0","1","-","0","2","T","2","1",":","0","0",":","0","0","Z">>
Garbage == <<"n","o","t","-","a","-","d","a","t","e">>

\* 2019-01-02T21:00:00Z
Base == Day + 21 * Hour

Step == 15 * Minute

Instants == { Base + k * Step : k \in 0..MaxSteps }

Durations == { k * Step : k \in (0 - 1)..MaxSteps } \cup {durationDay, durationWeek}

GroupStrings ==
  { c \o <<u>> : c \in {<<>>} \cup { Itoa(k) : k \in 1..MaxCount }, u \in {"W", "D"} }

RECURSIVE TokensOf(_)
\* the duration tokens of exactly n count-unit groups
TokensOf(n) ==
  IF n = 0 THEN { <<"P">> }
  ELSE { t \o g : t \in TokensOf(n - 1), g \in GroupStrings }

DurationTokens == UNION { TokensOf(n) : n \in 0..MaxGroups }

OddTokens ==
  { <<"P", "5">>, <<"P", "1", "X">>, <<"P", "-", "1", "W">>, <<"P", "1", "d">>,
    <<"P", "0", "D">>, <<"P", "1", "0", "D">> }

TimeParts ==
  { FormatRFC3339(t) : t \in Instants }
  \cup { TsStart, TsEnd, TsFraction, TsOffset, TsNoZone, TsBadDay, TsLongYear }

\* the parts that are paired with each other in every combination
SmallParts ==
  TimeParts \cup OddTokens \cup { <<"P", "1", "W">>, <<"P", "W">>, Garbage, <<>> }

Slash(a, b) == a \o <<"/">> \o b

Inputs ==
  { Slash(a, b) : a \in SmallParts, b \in SmallParts }
  \cup { Slash(TsEnd, d) : d \in DurationTokens }
  \cup { Slash(d, TsEnd) : d \in DurationTokens }
  \cup SmallParts
  \cup { Slash(a, Slash(b, TsEnd)) : a \in {TsStart, <<"P", "1", "W">>},
                                     b \in {TsStart, <<"P", "W">>} }

Pointers(S) == { None } \cup { Some(v) : v \in S }

---------------------------------------------------------------------------
(* The program: a caller that parses or constructs an Interval and then     *)
(* queries and formats it                                                   *)

NoRes == [kind |-> "none", in |-> None, err |-> NoErr, stage |-> "none"]
NoAns == [Started |-> FALSE, Ended |-> FALSE, In |-> FALSE,
          StartsAt |-> None, EndsAt |-> None]
NoIso == [s |-> <<>>, err |-> NoErr]

Init ==
  /\ op = "init"
  /\ input = <<>>
  /\ args = NoParts
  /\ res = NoRes
  /\ at = None
  /\ ans = NoAns
  /\ iso = NoIso

\* the effective bounds of the current Interval
StartsAtOf(r) ==
  IF r.kind = "ptr" THEN PtrInterval_StartsAt(Val(r.in)) ELSE Some(Val(r.in).StartsAt)

EndsAtOf(r) ==
  IF r.kind = "ptr" THEN PtrInterval_EndsAt(Val(r.in)) ELSE Some(Val(r.in).EndsAt)

StartedOf(r, t) ==
  IF r.kind = "ptr" THEN PtrInterval_Started(Val(r.in), t) ELSE Interval_Started(Val(r.in), t)

EndedOf(r, t) ==
  IF r.kind = "ptr" THEN PtrInterval_Ended(Val(r.in), t) ELSE Interval_Ended(Val(r.in), t)

InOf(r, t) ==
  IF r.kind = "ptr" THEN PtrInterval_In(Val(r.in), t) ELSE Interval_In(Val(r.in), t)

ISO8601Of(r) ==
  IF r.kind = "ptr" THEN PtrInterval_ISO8601(Val(r.in))
  ELSE IF r.kind = "iso" THEN [s |-> StoredInterval_ISO8601(Val(r.in)), err |-> NoErr]
  ELSE Interval_ISO8601(Val(r.in))

\* the instants a caller asks about: the sample instants and those at and
\* around the bounds of the current Interval
QueryInstants(r) ==
  IF IsNil(r.in) THEN {}
  ELSE Instants
       \cup { Val(b) + d : b \in {StartsAtOf(r), EndsAtOf(r)} \ {None},
                           d \in {0 - Hour, 0 - 1, 0, 1, Hour} }

Parse(s) ==
  /\ op = "init"
  /\ op' = "ParseIntervalISO8601"
  /\ input' = s
  /\ args' = NoParts
  /\ res' = ParseIntervalISO8601(s)
  /\ at' = None /\ ans' = NoAns /\ iso' = NoIso

ParseNew(s) ==
  /\ op = "init"
  /\ op' = "ParseIntervalISO8601_NewInterval"
  /\ input' = s
  /\ args' = parseIntervalParts(s).in
  /\ res' = ParseIntervalISO8601_NewInterval(s)
  /\ at' = None /\ ans' = NoAns /\ iso' = NoIso

ParseStored(s) ==
  /\ op = "init"
  /\ op' = "ParseIntervalISO8601_Stored"
  /\ input' = s
  /\ args' = parseIntervalParts(s).in
  /\ res' = ParseIntervalISO8601_Stored(s)
  /\ at' = None /\ ans' = NoAns /\ iso' = NoIso

Construct(startsAt, endsAt, duration) ==
  /\ op = "init"
  /\ op' = "NewInterval"
  /\ input' = <<>>
  /\ args' = [startsAt |-> startsAt, endsAt |-> endsAt, duration |-> duration]
  /\ res' = [kind |-> "tag", stage |-> "NewInterval"] @@ NewInterval(startsAt, endsAt, duration)
  /\ at' = None /\ ans' = NoAns /\ iso' = NoIso

Query(t) ==
  /\ ~IsNil(res.in)
  /\ at' = Some(t)
  /\ ans' = [Started |-> StartedOf(res, t), Ended |-> EndedOf(res, t), In |-> InOf(res, t),
             StartsAt |-> StartsAtOf(res), EndsAt |-> EndsAtOf(res)]
  /\ UNCHANGED <<op, input, args, res, iso>>

Format ==
  /\ ~IsNil(res.in)
  /\ iso' = ISO8601Of(res)
  /\ UNCHANGED <<op, input, args, res, at, ans>>

\* the caller drops the Interval it holds
Reset ==
  /\ op # "init"
  /\ op' = "init"
  /\ input' = <<>> /\ args' = NoParts /\ res' = NoRes
  /\ at' = None /\ ans' = NoAns /\ iso' = NoIso

\* the characters U+0020..U+007E in the order of their code points; the grave
\* accent is written by its code point
PrintableASCII ==
  << " ", "!", "\"", "#", "$", "%", "&", "'", "(", ")", "*", "+", ",", "-", ".", "/",
     "0", "1", "2", "3", "4", "5", "6", "7", "8", "9", ":", ";", "<", "=", ">", "?",
     "@", "A", "B", "C", "D", "E", "F", "G", "H", "I", "J", "K", "L", "M", "N", "O",
     "P", "Q", "R", "S", "T", "U", "V", "W", "X", "Y", "Z", "[", "\\", "]", "^", "_",
     "U+0060", "a", "b", "c", "d", "e", "f", "g", "h", "i", "j", "k", "l", "m", "n", "o",
     "p", "q", "r", "s", "t", "u", "v", "w", "x", "y", "z", "{", "|", "}", "~" >>

\* the characters U+0000..U+001F in the order of their code points, each
\* written by its code point
ControlRunes ==
  << "U+0000", "U+0001", "U+0002", "U+0003", "U+0004", "U+0005", "U+0006",
     "U+0007", "U+0008", "U+0009", "U+000A", "U+000B", "U+000C", "U+000D",
     "U+000E", "U+000F", "U+0010", "U+0011", "U+0012", "U+0013", "U+0014",
     "U+0015", "U+0016", "U+0017", "U+0018", "U+0019", "U+001A", "U+001B",
     "U+001C", "U+001D", "U+001E", "U+001F" >>

IsControl(c) == \E i \in 1..32 : ControlRunes[i] = c

Tab == ControlRunes[10]
LineFeed == ControlRunes[11]
CarriageReturn == ControlRunes[14]

\* the character U+007F
Delete == "U+007F"

\* a character at or above U+0080: the strings of the model distinguish no
\* two of them
OtherRune == "U+"

HexChars == <<"0", "1", "2", "3", "4", "5", "6", "7", "8", "9", "a", "b", "c", "d", "e", "f">>
UpperHexChars == <<"A", "B", "C", "D", "E", "F">>

IsHex(c) == \E i \in 1..16 : HexChars[i] = c \/ (i > 10 /\ UpperHexChars[i - 10] = c)

HexVal(c) == CHOOSE i \in 0..15 : HexChars[i + 1] = c \/ (i >= 10 /\ UpperHexChars[i - 9] = c)

\* the number of the escape \uXXXX that starts at s[i], or -1 when there is none
getu4(s, i) ==
  IF /\ i + 5 <= Len(s) /\ s[i] = "\\" /\ s[i + 1] = "u"
     /\ \A k \in 2..5 : IsHex(s[i + k])
    THEN ((HexVal(s[i + 2]) * 16 + HexVal(s[i + 3])) * 16 + HexVal(s[i + 4])) * 16
         + HexVal(s[i + 5])
    ELSE 0 - 1

\* the character of code point v, v below 65536
RuneOf(v) ==
  IF v < 32 THEN ControlRunes[v + 1]
  ELSE IF v <= 126 THEN PrintableASCII[v - 31]
  ELSE IF v = 127 THEN Delete
  ELSE OtherRune

\* utf16.IsSurrogate
IsSurrogate(v) == 55296 <= v /\ v < 57344

\* utf16.DecodeRune(v, w) is a character: v and w are the two halves of a pair
IsSurrogatePair(v, w) == 55296 <= v /\ v < 56320 /\ 56320 <= w /\ w < 57344

\* the character written by a backslash and the letter c
EscapedRune(c) ==
  IF c = "b" THEN ControlRunes[9]
  ELSE IF c = "f" THEN ControlRunes[13]
  ELSE IF c = "n" THEN LineFeed
  ELSE IF c = "r" THEN CarriageReturn
  ELSE Tab

JSONFailure == [s |-> <<>>, err |-> "json: cannot unmarshal into a string"]

RECURSIVE unquote(_, _, _)
\* the characters of a JSON string, body being the text between its quotes: a
\* quote or a control character that is not escaped, and an escape that is not
\* one of JSON's, are errors; a surrogate pair of two \u escapes is one
\* character, and a half without its other half is the replacement character
unquote(body, i, out) ==
  IF i > Len(body) THEN [s |-> out, err |-> NoErr]
  ELSE IF body[i] = "\"" \/ IsControl(body[i]) THEN JSONFailure
  ELSE IF body[i] # "\\" THEN unquote(body, i + 1, Append(out, body[i]))
  ELSE IF i = Len(body) THEN JSONFailure
  ELSE IF body[i + 1] \in {"\"", "\\", "/"}
    THEN unquote(body, i + 2, Append(out, body[i + 1]))
  ELSE IF body[i + 1] \in {"b", "f", "n", "r", "t"}
    THEN unquote(body, i + 2, Append(out, EscapedRune(body[i + 1])))
  ELSE IF getu4(body, i) < 0 THEN JSONFailure
  ELSE IF ~IsSurrogate(getu4(body, i))
    THEN unquote(body, i + 6, Append(out, RuneOf(getu4(body, i))))
  ELSE IF IsSurrogatePair(getu4(body, i), getu4(body, i + 6))
    THEN unquote(body, i + 12, Append(out, OtherRune))
  ELSE unquote(body, i + 6, Append(out, OtherRune))

\* the white space of a JSON text
isSpace(c) == c \in {" ", Tab, CarriageReturn, LineFeed}

RECURSIVE TrimSpace(_)
\* data without the white space around the JSON value
TrimSpace(data) ==
  IF data # <<>> /\ isSpace(data[1]) THEN TrimSpace(Tail(data))
  ELSE IF data # <<>> /\ isSpace(data[Len(data)])
    THEN TrimSpace(SubSeq(data, 1, Len(data) - 1))
  ELSE data

\* the value of a JSON text that is not padded with white space
jsonValueString(v) ==
  IF v = <<"n", "u", "l", "l">> THEN [s |-> <<>>, err |-> NoErr]
  ELSE IF Len(v) >= 2 /\ v[1] = "\"" /\ v[Len(v)] = "\""
    THEN unquote(SubSeq(v, 2, Len(v) - 1), 1, <<>>)
  ELSE JSONFailure

\* var s string; err := json.Unmarshal(data, &s): null leaves s empty, and
\* any text but null and a string is an error
jsonUnmarshalString(data) == jsonValueString(TrimSpace(data))

\* the JSON text of a string that needs no escape
Quoted(s) == <<"\"">> \o s \o <<"\"">>

\* UnmarshalJSON once the text is decoded to js and the string parsed: with
\* no error *in = *i, and the caller holds the new value; with an error the
\* receiver is what it was, and the caller holds the error of the call
Unmarshal(data, js, parsed) ==
  /\ IF js.err = NoErr /\ parsed.err = NoErr
       THEN /\ op' = "UnmarshalJSON"
            /\ input' = data
            /\ args' = NoParts
            /\ res' = parsed
            /\ ans' = NoAns
       ELSE /\ UNCHANGED <<op, input, args, res>>
            /\ ans' = [err |-> IF js.err # NoErr THEN js.err ELSE parsed.err]
  /\ at' = None /\ iso' = NoIso

\* the JSON texts handed to UnmarshalJSON
UnmarshalInputs ==
  { Quoted(Slash(TsStart, <<"P", "1", "W">>)),
    <<"\"">> \o TsStart \o <<"\\", "/">> \o TsEnd \o <<"\"">>,
    Quoted(Garbage),
    Slash(TsStart, TsEnd),
    <<Tab>> \o Quoted(Slash(TsStart, <<"P", "1", "W">>)) \o <<CarriageReturn, LineFeed>>,
    Quoted(<<"a", Tab, "b">>) }

\* the string json.Unmarshal decodes from each of these texts; the outcome of
\* a text depends on nothing else, and is computed once
DecodedInputs == [data \in UnmarshalInputs |-> jsonUnmarshalString(data)]

decoded(data) ==
  IF data \in UnmarshalInputs THEN DecodedInputs[data] ELSE jsonUnmarshalString(data)

\* what each parser returns for the strings decoded from these texts
ParsedInputs ==
  [data \in UnmarshalInputs |-> ParseIntervalISO8601(DecodedInputs[data].s)]

ParsedInputs_NewInterval ==
  [data \in UnmarshalInputs |-> ParseIntervalISO8601_NewInterval(DecodedInputs[data].s)]

ParsedInputs_Stored ==
  [data \in UnmarshalInputs |-> ParseIntervalISO8601_Stored(DecodedInputs[data].s)]

\* in.UnmarshalJSON(data) on a fresh Interval (var in Interval) or on the one
\* the caller holds
UnmarshalJSON(data) ==
  /\ op = "init" \/ (res.kind = "ptr" /\ ~IsNil(res.in))
  /\ Unmarshal(data, decoded(data),
               IF data \in UnmarshalInputs THEN ParsedInputs[data]
               ELSE ParseIntervalISO8601(decoded(data).s))

\* the same on an Interval of the variant built by NewInterval
UnmarshalJSON_NewInterval(data) ==
  /\ op = "init" \/ (res.kind = "tag" /\ ~IsNil(res.in))
  /\ Unmarshal(data, decoded(data),
               IF data \in UnmarshalInputs THEN ParsedInputs_NewInterval[data]
               ELSE ParseIntervalISO8601_NewInterval(decoded(data).s))

\* the same on an Interval that keeps its string
UnmarshalJSON_Stored(data) ==
  /\ op = "init" \/ (res.kind = "iso" /\ ~IsNil(res.in))
  /\ Unmarshal(data, decoded(data),
               IF data \in UnmarshalInputs THEN ParsedInputs_Stored[data]
               ELSE ParseIntervalISO8601_Stored(decoded(data).s))

Next ==
  \/ \E s \in Inputs : Parse(s)
  \/ \E s \in Inputs : ParseNew(s)
  \/ \E s \in Inputs : ParseStored(s)
  \/ \E s \in Pointers(Instants), e \in Pointers(Instants), d \in Pointers(Durations) :
       Construct(s, e, d)
  \/ \E data \in UnmarshalInputs : UnmarshalJSON(data)
  \/ \E data \in UnmarshalInputs : UnmarshalJSON_NewInterval(data)
  \/ \E data \in UnmarshalInputs : UnmarshalJSON_Stored(data)
  \/ \E t \in QueryInstants(res) : Query(t)
  \/ Format
  \/ Reset

Spec == Init /\ [][Next]_vars

\* the same caller, given only strings of two timestamps
TimeTimeInputs == { Slash(a, b) : a \in TimeParts, b \in TimeParts }

NextTimeTime ==
  \/ \E s \in TimeTimeInputs : Parse(s)
  \/ \E s \in TimeTimeInputs : ParseNew(s)
  \/ \E t \in QueryInstants(res) : Query(t)
  \/ Format
  \/ Reset

SpecTimeTime == Init /\ [][NextTimeTime]_vars

---------------------------------------------------------------------------
(* The program: a caller that parses or constructs a Repeating and then     *)
(* queries and formats it                                                   *)

\* largest repetition count given to a constructed Repeating
MaxReps == 3

Counts == { Uint32(n) : n \in 0..MaxReps }

StepDurations == { k * Step : k \in 0..MaxSteps }

RepetitionStrings ==
  { <<"R">> \o Itoa(n) : n \in 0..MaxReps }
  \cup { <<"R">>, <<"R", "1", "0">>, <<"R", "0", "1">>, <<"R", "+", "2">>, <<"R", "-", "1">>,
         <<"R", "x">>, <<"R", "4", "2", "9", "4", "9", "6", "7", "2", "9", "6">>,
         <<"R">> \o MaxInt64Digits \o <<"0">>,
         <<"R">> \o MaxInt64Digits \o <<"0", "x">>, <<>>, <<"r", "1">> }

RepeatingTimeParts == { FormatRFC3339(t) : t \in Instants } \cup { TsEnd, TsFraction }

RepeatingParts ==
  RepeatingTimeParts \cup { <<"P", "1", "W">>, <<"P", "W">>, <<"P", "2", "D">>, Garbage }

RepeatingInputs ==
  { Slash(r, Slash(a, b)) : r \in RepetitionStrings, a \in RepeatingParts, b \in RepeatingParts }
  \cup RepetitionStrings
  \cup { <<"R", "5">>, <<"R", "/">>, <<"R", "1", "/">> \o TsEnd }

RepeatingTimeTimeInputs ==
  { Slash(r, Slash(a, b)) : r \in RepetitionStrings,
                            a \in RepeatingTimeParts, b \in RepeatingTimeParts }

\* the Repeating the caller holds
Rep(r) == Val(r.in)

\* the length of a step of the series
RepeatEveryOf(r) ==
  IF r.kind = "rptr" THEN Rep(r).RepeatEvery ELSE Repeating_RepeatEvery(Rep(r))

\* the instants of a series with this count and this step fit the model's integers
CountFits(r) ==
  \/ IsNil(Rep(r).Repetitions)
  \/ /\ Val(Rep(r).Repetitions).hi = 0
     /\ \/ Val(Rep(r).Repetitions).lo = 0
        \/ Abs(RepeatEveryOf(r)) < (Limb * (Limb \div 4)) \div Val(Rep(r).Repetitions).lo

RepStartsAtOf(r) ==
  IF r.kind = "rptr" THEN PtrRepeating_StartsAt(Rep(r)) ELSE Repeating_StartsAt(Rep(r))

RepEndsAtOf(r) ==
  IF r.kind = "rptr" THEN PtrRepeating_EndsAt(Rep(r)) ELSE Repeating_EndsAt(Rep(r))

RepDurationOf(r) ==
  IF r.kind = "rptr" THEN PtrRepeating_Duration(Rep(r)) ELSE Repeating_Duration(Rep(r))

RepStartedOf(r, t) ==
  IF r.kind = "rptr" THEN PtrRepeating_Started(Rep(r), t) ELSE Repeating_Started(Rep(r), t)

RepEndedOf(r, t) ==
  IF r.kind = "rptr" THEN PtrRepeating_Ended(Rep(r), t) ELSE Repeating_Ended(Rep(r), t)

RepInOf(r, t) ==
  IF r.kind = "rptr" THEN PtrRepeating_In(Rep(r), t) ELSE Repeating_In(Rep(r), t)

RepNextOf(r, t) ==
  IF r.kind = "rptr" THEN PtrRepeating_Next(Rep(r), t) ELSE Repeating_Next(Rep(r), t)

RepISO8601Of(r) ==
  IF r.kind = "rptr" THEN PtrRepeating_ISO8601(Rep(r)) ELSE Repeating_ISO8601(Rep(r))

\* the bounds of the wrapped Interval
IntervalStartsAtOf(r) ==
  IF r.kind = "rptr" THEN PtrInterval_StartsAt(Rep(r).Interval)
  ELSE Some(Rep(r).Interval.StartsAt)

IntervalEndsAtOf(r) ==
  IF r.kind = "rptr" THEN PtrInterval_EndsAt(Rep(r).Interval)
  ELSE Some(Rep(r).Interval.EndsAt)

\* the instants a caller asks about: the sample instants and those at and
\* around the bounds of the series and of its Interval, on and off the steps
RepeatingQueryInstants(r) ==
  IF IsNil(r.in) \/ r.kind \notin {"rptr", "rtag", "riso"} \/ ~CountFits(r) THEN {}
  ELSE Instants
       \cup { Val(b) + d :
                b \in {RepStartsAtOf(r), RepEndsAtOf(r),
                       IntervalStartsAtOf(r), IntervalEndsAtOf(r)} \ {None},
                d \in {0 - Hour, 0 - Step - 7 * Minute, 0 - 7 * Minute, 0 - 1,
                       0, 1, 7 * Minute, Hour} }

ParseRepeating(s) ==
  /\ op = "init"
  /\ op' = "ParseRepeatingIntervalISO8601"
  /\ input' = s
  /\ args' = NoParts
  /\ res' = ParseRepeatingIntervalISO8601(s)
  /\ at' = None /\ ans' = NoAns /\ iso' = NoIso

\* RepeatingInterval{Interval: Interval{startsAt, endsAt}, RepeatIn, Repetitions}
BuildPtrRepeating(startsAt, endsAt, repeatEvery, repetitions) ==
  /\ op = "init"
  /\ op' = "RepeatingInterval"
  /\ input' = <<>>
  /\ args' = [startsAt |-> startsAt, endsAt |-> endsAt, duration |-> None]
  /\ res' = [kind |-> "rptr", err |-> NoErr, stage |-> "literal",
             in |-> Some([Interval |-> [startsAt |-> startsAt, endsAt |-> endsAt,
                                        duration |-> None],
                          RepeatEvery |-> repeatEvery,
                          Repetitions |-> repetitions])]
  /\ at' = None /\ ans' = NoAns /\ iso' = NoIso

\* i, err := NewInterval(startsAt, endsAt, duration, nil), then
\* Repeating{Interval: *i, RepeatEvery: ..., Repetitions: repetitions}: this
\* NewInterval compares nothing and returns either an Interval and no error or
\* no Interval, and then *i aborts the caller. RepeatEvery is written as the
\* tests write it, the duration handed to NewInterval or else the distance of
\* the two endpoints
BuildRepeating(startsAt, endsAt, duration, repetitions) ==
  /\ op = "init"
  /\ op' = "Repeating"
  /\ input' = <<>>
  /\ args' = [startsAt |-> startsAt, endsAt |-> endsAt, duration |-> duration]
  /\ res' = LET i == StoredInterval_NewInterval(startsAt, endsAt, duration, None)
            IN IF IsNil(i.in)
                 THEN [kind |-> "riso", in |-> None,
                       err |-> "panic: nil pointer dereference", stage |-> "panic"]
                 ELSE [kind |-> "riso", err |-> i.err, stage |-> "literal",
                       in |-> Some([Interval |-> Val(i.in),
                                    RepeatEvery |-> IF IsNil(duration)
                                                      THEN Interval_Duration(Val(i.in))
                                                      ELSE Val(duration),
                                    Repetitions |-> repetitions])]
  /\ at' = None /\ ans' = NoAns /\ iso' = NoIso

\* the methods of Repeating are those of the Repeating over an Interval with
\* optional fields and, over an Interval of either other variant, those that
\* read the fields StartsAt and EndsAt of the Interval and step by its duration
QueryRepeating(t) ==
  /\ res.kind \in {"rptr", "rtag", "riso"}
  /\ ~IsNil(res.in)
  /\ at' = Some(t)
  /\ ans' = [Started |-> RepStartedOf(res, t), Ended |-> RepEndedOf(res, t),
             In |-> RepInOf(res, t),
             StartsAt |-> RepStartsAtOf(res), EndsAt |-> RepEndsAtOf(res),
             Duration |-> RepDurationOf(res),
             Next |-> RepNextOf(res, t).t, panic |-> RepNextOf(res, t).panic]
  /\ UNCHANGED <<op, input, args, res, iso>>

\* ISO8601() of a Repeating takes the string and the error of the ISO8601() of
\* its Interval, which the Interval that keeps its string does not return
FormatRepeating ==
  /\ res.kind \in {"rptr", "rtag"}
  /\ ~IsNil(res.in)
  /\ iso' = RepISO8601Of(res)
  /\ UNCHANGED <<op, input, args, res, at, ans>>

\* the Repeating over an Interval of the variant built by NewInterval, as the
\* repeating parser returns it
taggedRepeatingOfParts(n, repetitions, in) ==
  IF n.err # NoErr THEN [RepeatingFailure(n.err, "count") EXCEPT !.kind = "rtag"]
  ELSE IF in.err # NoErr THEN [RepeatingFailure(in.err, "interval") EXCEPT !.kind = "rtag"]
  ELSE [kind |-> "rtag",
        in |-> Some([Interval |-> Val(in.in), Repetitions |-> repetitions]),
        err |-> NoErr, stage |-> "done"]

\* ParseRepeatingIntervalISO8601 over the interval parser that returns what
\* NewInterval returned
ParseRepeatingIntervalISO8601_NewInterval(s) ==
  IF ~HasPrefix(s, "R")
    THEN [RepeatingFailure("invalid repeating interval format", "prefix") EXCEPT !.kind = "rtag"]
  ELSE IF Len(SplitN2(s)) < 2
    THEN [RepeatingFailure("panic: index out of range", "panic") EXCEPT !.kind = "rtag"]
  ELSE taggedRepeatingOfParts(repetitionsOf(SplitN2(s)[1]),
                              IF Len(SplitN2(s)[1]) > 1
                                THEN Some(repetitionsOf(SplitN2(s)[1]).u) ELSE None,
                              ParseIntervalISO8601_NewInterval(SplitN2(s)[2]))

\* the JSON texts handed to UnmarshalJSON of a Repeating
RepeatingUnmarshalInputs ==
  { Quoted(<<"R", "2", "/">> \o Slash(TsStart, <<"P", "1", "W">>)),
    Quoted(<<"R", "/">> \o Slash(TsStart, Garbage)),
    <<"R", "/">> \o Slash(TsStart, TsEnd),
    Quoted(<<"R", "/">> \o Slash(TsStart, <<"P", "1", "W">>)) \o <<LineFeed>> }

\* the string json.Unmarshal decodes from each of these texts, computed once
DecodedRepeatingInputs ==
  [data \in RepeatingUnmarshalInputs |-> jsonUnmarshalString(data)]

decodedRepeating(data) ==
  IF data \in RepeatingUnmarshalInputs THEN DecodedRepeatingInputs[data]
  ELSE jsonUnmarshalString(data)

\* what each parser returns for the strings decoded from these texts
ParsedRepeatingInputs ==
  [data \in RepeatingUnmarshalInputs |->
     ParseRepeatingIntervalISO8601(DecodedRepeatingInputs[data].s)]

ParsedRepeatingInputs_NewInterval ==
  [data \in RepeatingUnmarshalInputs |->
     ParseRepeatingIntervalISO8601_NewInterval(DecodedRepeatingInputs[data].s)]

\* in.UnmarshalJSON(data) on a fresh Repeating (var in Repeating) or on the one
\* the caller holds
UnmarshalRepeatingJSON(data) ==
  /\ op = "init" \/ (res.kind = "rptr" /\ ~IsNil(res.in))
  /\ Unmarshal(data, decodedRepeating(data),
               IF data \in RepeatingUnmarshalInputs THEN ParsedRepeatingInputs[data]
               ELSE ParseRepeatingIntervalISO8601(decodedRepeating(data).s))

\* the same on a Repeating over an Interval of the variant built by NewInterval
UnmarshalRepeatingJSON_NewInterval(data) ==
  /\ op = "init" \/ (res.kind = "rtag" /\ ~IsNil(res.in))
  /\ Unmarshal(data, decodedRepeating(data),
               IF data \in RepeatingUnmarshalInputs
                 THEN ParsedRepeatingInputs_NewInterval[data]
                 ELSE ParseRepeatingIntervalISO8601_NewInterval(decodedRepeating(data).s))

\* the Repeating over an Interval that keeps its string, as the repeating
\* parser of that Interval returns it: the step is kept in the field RepeatEvery
storedRepeatingOfParts(n, repetitions, in) ==
  IF n.err # NoErr THEN [RepeatingFailure(n.err, "count") EXCEPT !.kind = "riso"]
  ELSE IF in.err # NoErr THEN [RepeatingFailure(in.err, "interval") EXCEPT !.kind = "riso"]
  ELSE [kind |-> "riso",
        in |-> Some([Interval |-> Val(in.in),
                     RepeatEvery |-> Interval_Duration(Val(in.in)),
                     Repetitions |-> repetitions]),
        err |-> NoErr, stage |-> "done"]

\* ParseRepeatingIntervalISO8601 over the interval parser that ends in
\* NewInterval(startsAt, endsAt, duration, &s)
ParseRepeatingIntervalISO8601_Stored(s) ==
  IF ~HasPrefix(s, "R")
    THEN [RepeatingFailure("invalid repeating interval format", "prefix") EXCEPT !.kind = "riso"]
  ELSE IF Len(SplitN2(s)) < 2
    THEN [RepeatingFailure("panic: index out of range", "panic") EXCEPT !.kind = "riso"]
  ELSE storedRepeatingOfParts(repetitionsOf(SplitN2(s)[1]),
                              IF Len(SplitN2(s)[1]) > 1
                                THEN Some(repetitionsOf(SplitN2(s)[1]).u) ELSE None,
                              ParseIntervalISO8601_Stored(SplitN2(s)[2]))

ParseRepeatingStored(s) ==
  /\ op = "init"
  /\ op' = "ParseRepeatingIntervalISO8601_Stored"
  /\ input' = s
  /\ args' = NoParts
  /\ res' = ParseRepeatingIntervalISO8601_Stored(s)
  /\ at' = None /\ ans' = NoAns /\ iso' = NoIso

NextRepeating ==
  \/ \E s \in Pointers(Instants), e \in Pointers(Instants), d \in Pointers(Durations),
        n \in Pointers(Counts) : BuildRepeating(s, e, d, n)
  \/ \E s \in Pointers(Instants), e \in Pointers(Instants), d \in StepDurations,
        n \in Pointers(Counts) : BuildPtrRepeating(s, e, d, n)
  \/ \E s \in RepeatingInputs : ParseRepeating(s)
  \/ \E s \in RepeatingInputs : ParseRepeatingStored(s)
  \/ \E data \in RepeatingUnmarshalInputs : UnmarshalRepeatingJSON(data)
  \/ \E data \in RepeatingUnmarshalInputs : UnmarshalRepeatingJSON_NewInterval(data)
  \/ \E t \in RepeatingQueryInstants(res) : QueryRepeating(t)
  \/ FormatRepeating
  \/ Reset

SpecRepeating == Init /\ [][NextRepeating]_vars

\* the same caller, given only strings of a count and two timestamps
NextRepeatingTimeTime ==
  \/ \E s \in RepeatingTimeTimeInputs : ParseRepeating(s)
  \/ \E t \in RepeatingQueryInstants(res) : QueryRepeating(t)
  \/ FormatRepeating
  \/ Reset

SpecRepeatingTimeTime == Init /\ [][NextRepeatingTimeTime]_vars

---------------------------------------------------------------------------
(* The program: a caller of the duration codec *)

\* durations of 0..MaxDays days are encoded
MaxDays == 30

DecodeInputs ==
  DurationTokens \cup OddTokens
  \cup { Garbage, <<>>, <<"W">>, <<"1", "W">>, <<"P", "W", "1">>, <<"P", "1", "W", "X">> }

EncodeInputs ==
  { k * durationDay : k \in 0..MaxDays } \cup { Step, durationDay + Step, 0 - durationDay }

\* the result of parseDurationString as the caller holds it
DecodedRes(r) ==
  [kind |-> "duration", in |-> Some(r.d), err |-> r.err, stage |-> "parseDurationString"]

Decode(s) ==
  /\ op = "init"
  /\ op' = "parseDurationString"
  /\ input' = s
  /\ args' = NoParts
  /\ res' = DecodedRes(parseDurationString(s))
  /\ at' = None /\ ans' = NoAns /\ iso' = NoIso

Encode(d) ==
  /\ op = "init"
  /\ op' = "durationToISO8601"
  /\ input' = <<>>
  /\ args' = [NoParts EXCEPT !.duration = Some(d)]
  /\ res' = NoRes
  /\ iso' = durationToISO8601(d)
  /\ at' = None /\ ans' = NoAns

\* the caller decodes the string the encoder returned
DecodeEncoded ==
  /\ op = "durationToISO8601"
  /\ iso.err = NoErr
  /\ op' = "durationToISO8601, parseDurationString"
  /\ input' = iso.s
  /\ res' = DecodedRes(parseDurationString(iso.s))
  /\ UNCHANGED <<args, at, ans, iso>>

NextDuration ==
  \/ \E s \in DecodeInputs : Decode(s)
  \/ \E d \in EncodeInputs : Encode(d)
  \/ DecodeEncoded
  \/ Reset

SpecDuration == Init /\ [][NextDuration]_vars

---------------------------------------------------------------------------
(* Vocabulary of the properties *)

Parsing ==
  op \in {"ParseIntervalISO8601", "ParseIntervalISO8601_NewInterval",
          "ParseIntervalISO8601_Stored"}

Formatted == iso # NoIso

Queried == at # None

SlashCount(s) == Cardinality({ i \in 1..Len(s) : s[i] = "/" })

\* the shape of an interval string: the kinds of its two parts
ShapeOf(s) ==
  LET parts == Split(s)
  IN IF Len(parts) # 2 THEN <<>>
     ELSE <<identifyType(parts[1]).ft, identifyType(parts[2]).ft>>

TimeTime == <<typeTime, typeTime>>
TimeDuration == <<typeTime, typeDuration>>
DurationTime == <<typeDuration, typeTime>>

\* the shape of the fields an Interval is built from
ShapeOfFields(a) ==
  IF ~IsNil(a.startsAt) /\ ~IsNil(a.endsAt) THEN TimeTime
  ELSE IF ~IsNil(a.startsAt) /\ ~IsNil(a.duration) THEN TimeDuration
  ELSE IF ~IsNil(a.endsAt) /\ ~IsNil(a.duration) THEN DurationTime
  ELSE <<>>

BuiltShape ==
  IF op = "NewInterval" THEN ShapeOfFields(args)
  ELSE IF op = "UnmarshalJSON" THEN ShapeOf(jsonUnmarshalString(input).s)
  ELSE ShapeOf(input)

\* the shape the Interval itself records
RecordedShape(r) ==
  IF r.kind = "ptr" THEN ShapeOfFields(Val(r.in))
  ELSE IF r.kind = "iso" THEN ShapeOf(Val(r.in).iso8601)
  ELSE IF Val(r.in).Format = ISOFormatTimeAndTime THEN TimeTime
  ELSE IF Val(r.in).Format = ISOFormatTimeAndDuration THEN TimeDuration
  ELSE IF Val(r.in).Format = ISOFormatDurationAndTime THEN DurationTime
  ELSE <<>>

---------------------------------------------------------------------------
(* Properties *)

\* C1: for every string s the interval parser accepts, ISO8601() of the parsed
\* Interval returns exactly s, whatever spelling of the duration or of the
\* timestamp s uses.
C1_RoundTripEveryAcceptedString ==
  (Parsing /\ res.err = NoErr /\ Formatted) => (iso.err = NoErr /\ iso.s = input)

\* C2: the textual shape of ISO8601() is the shape the Interval was built from
\* (Time/Time, Time/Duration or Duration/Time), for parsed and for constructed
\* Intervals; an Interval built with a duration never formats as Time/Time,
\* and a Time/Time Interval always formats.
C2_ShapePreserved ==
  (res.err = NoErr /\ ~IsNil(res.in)) =>
     /\ RecordedShape(res) = BuiltShape
     /\ Formatted =>
          /\ iso.err = NoErr => ShapeOf(iso.s) = BuiltShape
          /\ iso.err # NoErr => (iso.s = <<>> /\ BuiltShape # TimeTime)

C2_Witness ==
  /\ Formatted /\ iso.err = NoErr /\ res.err = NoErr
  /\ op = "NewInterval" /\ BuiltShape = TimeDuration
  /\ ShapeOf(iso.s) = TimeDuration

\* C3: for every start and every duration d >= 0, NewInterval(start, nil, d)
\* and NewInterval(nil, start+d, d) both succeed with the same StartsAt and
\* the same EndsAt, and with the tags TimeAndDuration and DurationAndTime.
C3_DerivedBoundEquivalence ==
  (/\ op = "NewInterval" /\ ~IsNil(args.startsAt) /\ IsNil(args.endsAt)
   /\ ~IsNil(args.duration) /\ Val(args.duration) >= 0) =>
     LET d == Val(args.duration)
         other == NewInterval(None, Some(Val(args.startsAt) + d), Some(d))
     IN /\ res.err = NoErr /\ other.err = NoErr
        /\ Val(res.in).StartsAt = Val(other.in).StartsAt
        /\ Val(res.in).EndsAt = Val(other.in).EndsAt
        /\ Val(res.in).StartsAt = Val(args.startsAt)
        /\ Val(res.in).Format = ISOFormatTimeAndDuration
        /\ Val(other.in).Format = ISOFormatDurationAndTime

C3_Witness ==
  /\ op = "NewInterval" /\ ~IsNil(args.startsAt) /\ IsNil(args.endsAt)
  /\ ~IsNil(args.duration) /\ Val(args.duration) = Step
  /\ res.err = NoErr /\ Val(res.in).EndsAt = Val(args.startsAt) + Step

\* the Interval with both endpoints stored explicitly and the same effective
\* StartsAt() and EndsAt() as in
ExplicitOf(in) ==
  [startsAt |-> PtrInterval_StartsAt(in), endsAt |-> PtrInterval_EndsAt(in), duration |-> None]

\* C4: an Interval with one derived endpoint answers Started, Ended and In for
\* every instant as the Interval with both endpoints stored explicitly does.
C4_DerivedAnswersAsExplicit ==
  (/\ Queried /\ res.kind = "ptr" /\ res.err = NoErr
   /\ ShapeOfFields(Val(res.in)) \in {TimeDuration, DurationTime}) =>
     LET e == ExplicitOf(Val(res.in))
     IN /\ ans.Started = PtrInterval_Started(e, Val(at))
        /\ ans.Ended = PtrInterval_Ended(e, Val(at))
        /\ ans.In = PtrInterval_In(e, Val(at))

\* C5: an Interval with both bounds is active exactly from its start to its
\* end, both included: Started(t) iff t >= StartsAt, Ended(t) iff t > EndsAt,
\* In(t) iff StartsAt <= t <= EndsAt.
C5_ActiveOnClosedRange ==
  (/\ Queried
   /\ (res.kind \in {"tag", "iso"} \/ ShapeOfFields(Val(res.in)) = TimeTime)) =>
     LET s == Val(ans.StartsAt)
         e == Val(ans.EndsAt)
         t == Val(at)
     IN /\ ans.Started <=> (t >= s)
        /\ ans.Ended <=> (t > e)
        /\ ans.In <=> (s <= t /\ t <= e)

C5_Witness ==
  /\ Queried /\ res.kind = "tag" /\ res.err = NoErr
  /\ Val(at) = Val(ans.EndsAt) /\ Val(ans.StartsAt) < Val(at)
  /\ ans.In /\ ~ans.Ended

\* C6: every Interval returned without an error by NewInterval or by the parser
\* has its end not before its start; a Time/Time string with the second
\* timestamp before the first is rejected.
C6_EndNotBeforeStart ==
  (res.err = NoErr /\ ~IsNil(res.in)) =>
     /\ ~IsNil(StartsAtOf(res)) /\ ~IsNil(EndsAtOf(res))
     /\ Val(StartsAtOf(res)) <= Val(EndsAtOf(res))

\* C7: NewInterval fails when both endpoints are absent, and when one is absent
\* and the duration is absent; it succeeds when both endpoints are given with
\* end not before start, and when one endpoint is given with a duration >= 0.
C7_NewIntervalErrors ==
  op = "NewInterval" =>
    LET s == args.startsAt
        e == args.endsAt
        d == args.duration
    IN /\ (IsNil(s) /\ IsNil(e)) => (res.err # NoErr /\ IsNil(res.in))
       /\ (IsNil(s) # IsNil(e) /\ IsNil(d)) => (res.err # NoErr /\ IsNil(res.in))
       /\ (~IsNil(s) /\ ~IsNil(e) /\ Val(s) <= Val(e)) => (res.err = NoErr /\ ~IsNil(res.in))
       /\ (IsNil(s) # IsNil(e) /\ ~IsNil(d) /\ Val(d) >= 0) => (res.err = NoErr /\ ~IsNil(res.in))

C7_Witness ==
  /\ op = "NewInterval" /\ IsNil(args.startsAt) /\ ~IsNil(args.endsAt) /\ IsNil(args.duration)
  /\ res.err = "invalid interval"

\* C8: the parser fails with 'invalid interval format' for every string that
\* does not hold exactly one '/', before any part is classified or decoded.
C8_InvalidFormatUnlessOneSlash ==
  (Parsing /\ SlashCount(input) # 1) =>
     (res.err = "invalid interval format" /\ res.stage = "split" /\ IsNil(res.in))

C8_Witness ==
  /\ Parsing /\ SlashCount(input) = 2
  /\ res.err = "invalid interval format" /\ res.stage = "split"

\* C9: the parser fails with 'interval cannot consist of two durations' for
\* every two-part string whose parts both start with P, and returns no Interval.
C9_TwoDurationsRejected ==
  (/\ Parsing /\ SlashCount(input) = 1
   /\ HasPrefix(Split(input)[1], "P") /\ HasPrefix(Split(input)[2], "P")) =>
     (res.err = "interval cannot consist of two durations" /\ IsNil(res.in))

C9_Witness ==
  /\ Parsing /\ input = <<"P", "1", "W", "/", "P", "1", "X">>
  /\ res.err = "interval cannot consist of two durations"

\* C10: every part that is a strict offset timestamp, with zone Z or with a
\* numeric offset, is classified as a timestamp and decoded as the start
\* (first part) or the end (second part); it is not rejected as unknown.
C10_OffsetTimestampsDecoded ==
  (/\ op = "ParseIntervalISO8601" /\ SlashCount(input) = 1
   /\ parseTimeString(Split(input)[1]).err = NoErr
   /\ parseTimeString(Split(input)[2]).err = NoErr) =>
     /\ res.err = NoErr
     /\ Val(res.in).startsAt = Some(parseTimeString(Split(input)[1]).t)
     /\ Val(res.in).endsAt = Some(parseTimeString(Split(input)[2]).t)

---------------------------------------------------------------------------
(* Vocabulary of the properties of Repeating *)

RepeatingParsing == op = "ParseRepeatingIntervalISO8601"

\* the caller holds a Repeating and has asked it about the instant at
RepeatingQueried == Queried /\ res.kind \in {"rptr", "rtag", "riso"}

HasCount == ~IsNil(Rep(res).Repetitions)

\* the count of the Repeating the caller holds
CountOf(r) == Uint32Value(Val(Rep(r).Repetitions))

\* the characters written between the R and the first '/'
WrittenCount(s) == Tail(SplitN2(s)[1])

\* the largest count: 4294967295
MaxUint32Digits == <<"4", "2", "9", "4", "9", "6", "7", "2", "9", "5">>

\* the decimal digits s denote a number that fits an unsigned 32-bit count
FitsUint32(s) ==
  \/ Len(StripZeros(s)) < Len(MaxUint32Digits)
  \/ /\ Len(StripZeros(s)) = Len(MaxUint32Digits)
     /\ DigitsLeq(StripZeros(s), MaxUint32Digits)

\* b is the first instant after t that lies a whole number of steps from anchor
FirstBoundaryAfter(b, t, anchor, every) ==
  /\ b > t
  /\ b - t <= every
  /\ GoRem(b - anchor, every) = 0

---------------------------------------------------------------------------
(* Properties of Repeating *)

\* C11: the repeating parser returns an error, and never aborts, for every
\* malformed string: one that does not start with R fails with 'invalid
\* repeating interval format', one that starts with R and holds no '/'
\* returns an error.
C11_MalformedInputsReturnErrors ==
  RepeatingParsing =>
    /\ res.stage # "panic"
    /\ ~HasPrefix(input, "R") =>
         (res.err = "invalid repeating interval format" /\ IsNil(res.in))
    /\ (HasPrefix(input, "R") /\ SlashCount(input) = 0) =>
         (res.err # NoErr /\ IsNil(res.in))

\* C12: when the repeating parser succeeds on a prefix R<n>, the stored count
\* is the non-negative decimal number n that is written; a prefix that writes
\* a negative number, or a number above 4294967295, is rejected.
C12_CountIsTheNumberWritten ==
  (/\ RepeatingParsing /\ HasPrefix(input, "R") /\ SlashCount(input) >= 1
   /\ WrittenCount(input) # <<>>) =>
     LET w == WrittenCount(input)
         digits == IF w[1] \in {"+", "-"} THEN Tail(w) ELSE w
     IN IF digits = <<>> \/ ~AllDigits(digits) THEN res.err # NoErr
        ELSE IF (w[1] = "-" /\ StripZeros(digits) # <<"0">>) \/ ~FitsUint32(digits)
          THEN res.err # NoErr
        ELSE res.err = NoErr =>
               /\ HasCount
               /\ FormatUint32(Val(Rep(res).Repetitions)) = StripZeros(digits)

\* C13: for every string s the repeating parser accepts, ISO8601() of the
\* result returns exactly s: R, the count exactly when s carried one, '/',
\* and the wrapped Interval in its original shape.
C13_RepeatingRoundTrip ==
  (RepeatingParsing /\ res.err = NoErr /\ Formatted) =>
     (iso.err = NoErr /\ iso.s = input)

\* C14: a Repeating with a count n has both StartsAt() and EndsAt(), and
\* EndsAt() - StartsAt() = Duration() = n x repeatEvery, whatever shape the
\* wrapped Interval was built from and also when the parser returned it.
C14_CountedSeriesSpansCountSteps ==
  (RepeatingQueried /\ HasCount) =>
     /\ ~IsNil(ans.StartsAt) /\ ~IsNil(ans.EndsAt)
     /\ Val(ans.EndsAt) - Val(ans.StartsAt) = CountOf(res) * RepeatEveryOf(res)
     /\ ans.Duration = Some(CountOf(res) * RepeatEveryOf(res))

\* C15: a Repeating with a count n over an Interval whose start is derived
\* from its duration (Duration/Time) is anchored at its end: EndsAt() is the
\* end of the Interval and StartsAt() is that end minus n x repeatEvery.
C15_DerivedStartAnchorsAtEnd ==
  (/\ RepeatingQueried /\ res.kind = "rptr" /\ HasCount
   /\ PtrInterval_StartsAtDerivedFromDuration(Rep(res).Interval)) =>
     /\ ans.EndsAt = Rep(res).Interval.endsAt
     /\ ans.StartsAt =
          Some(Val(Rep(res).Interval.endsAt) - CountOf(res) * RepeatEveryOf(res))

\* C16: for a Repeating with a count over an Interval that NewInterval built
\* from (duration, end), StartsAt() is present and is the start of the
\* Interval, end - duration, whatever the count.
C16_StartIsTheIntervalStart ==
  (/\ RepeatingQueried /\ op = "Repeating" /\ HasCount
   /\ IsNil(args.startsAt) /\ ~IsNil(args.endsAt) /\ ~IsNil(args.duration)) =>
     /\ ans.StartsAt = Some(Val(args.endsAt) - Val(args.duration))
     /\ ans.StartsAt = Some(Rep(res).Interval.StartsAt)

C16_Witness ==
  /\ RepeatingQueried /\ op = "Repeating" /\ HasCount /\ CountOf(res) = 3
  /\ res.err = NoErr /\ Rep(res).RepeatEvery = Step
  /\ IsNil(args.startsAt) /\ ~IsNil(args.endsAt) /\ args.duration = Some(Step)
  /\ Rep(res).Interval =
       Val(StoredInterval_NewInterval(None, args.endsAt, Some(Step), None).in)
  /\ ans.StartsAt = Some(Val(args.endsAt) - Step)

\* C17: a Repeating without a count is unbounded in both directions:
\* StartsAt() and EndsAt() are absent, Started(t) is true and Ended(t) is
\* false for every t, and Next(t) is present whenever repeatEvery > 0.
C17_UncountedSeriesIsUnbounded ==
  (RepeatingQueried /\ ~HasCount) =>
     /\ IsNil(ans.StartsAt) /\ IsNil(ans.EndsAt)
     /\ ans.Started /\ ~ans.Ended /\ ans.In
     /\ RepeatEveryOf(res) > 0 => (~IsNil(ans.Next) /\ ~ans.panic)

\* C18: for repeatEvery > 0 and an instant t at which the Repeating is started
\* and not ended, a present Next(t) is the smallest instant after t that lies
\* a whole number of steps from the start of the wrapped Interval, for t on
\* and off the steps, and before the anchor in an unbounded series.
C18_NextIsTheFirstBoundaryAfter ==
  (/\ RepeatingQueried /\ RepeatEveryOf(res) > 0
   /\ ~IsNil(IntervalStartsAtOf(res))
   /\ ans.Started /\ ~ans.Ended /\ ~IsNil(ans.Next)) =>
     FirstBoundaryAfter(Val(ans.Next), Val(at), Val(IntervalStartsAtOf(res)),
                        RepeatEveryOf(res))

\* C19: for every instant t at which a Repeating is not started, Next(t) is
\* StartsAt(), which is present and after t.
C19_NextBeforeStartIsTheStart ==
  (RepeatingQueried /\ ~ans.Started) =>
     /\ ~ans.panic
     /\ ~IsNil(ans.StartsAt)
     /\ ans.Next = ans.StartsAt
     /\ Val(ans.StartsAt) > Val(at)

C19_Witness ==
  /\ RepeatingQueried /\ res.kind \in {"rtag", "riso"} /\ ~ans.Started
  /\ RepeatEveryOf(res) > 0
  /\ ans.Next = Some(Rep(res).Interval.StartsAt)
  /\ Val(at) < Rep(res).Interval.StartsAt

\* C20: for a Repeating with both StartsAt() and EndsAt(), Next(t) is absent
\* for every t at or after EndsAt(), and every present Next(t) lies from
\* StartsAt() to EndsAt(), both included.
C20_NextStaysWithinTheSeries ==
  (/\ RepeatingQueried
   /\ ~IsNil(ans.StartsAt) /\ ~IsNil(ans.EndsAt)) =>
     /\ ~ans.panic
     /\ Val(at) >= Val(ans.EndsAt) => IsNil(ans.Next)
     /\ ~IsNil(ans.Next) =>
          (Val(ans.StartsAt) <= Val(ans.Next) /\ Val(ans.Next) <= Val(ans.EndsAt))

---------------------------------------------------------------------------
(* Properties of the duration codec *)

RECURSIVE IsGroups(_)
\* b is a sequence of count-unit groups, the count of a group being optional
IsGroups(b) ==
  \/ b = <<>>
  \/ /\ LeadingDigits(b) < Len(b)
     /\ b[LeadingDigits(b) + 1] \in {"W", "D"}
     /\ IsGroups(Drop(b, LeadingDigits(b) + 1))

\* s is the marker P followed by one or more count-unit groups
WellFormedToken(s) == HasPrefix(s, "P") /\ Len(s) > 1 /\ IsGroups(Tail(s))

RECURSIVE GroupsValue(_)
\* the sum of count x unit length over the groups of b, an absent count being 1
GroupsValue(b) ==
  IF b = <<>> THEN 0
  ELSE (IF LeadingDigits(b) = 0 THEN 1 ELSE DigitsValue(SubSeq(b, 1, LeadingDigits(b))))
         * (IF b[LeadingDigits(b) + 1] = "W" THEN 7 * Day ELSE Day)
       + GroupsValue(Drop(b, LeadingDigits(b) + 1))

\* C21: parseDurationString returns the sum over the groups of the token of
\* count x unit length (W = 7 days, D = 24 hours); a unit letter with no
\* digits directly before it counts as 1, also after an earlier group.
C21_DurationIsTheSumOfGroups ==
  (op = "parseDurationString" /\ WellFormedToken(input)) =>
     (res.err = NoErr /\ Val(res.in) = GroupsValue(Tail(input)))

\* C22: parseDurationString returns an error for every string that is not the
\* marker P followed by one or more count-unit groups with unit W or D, P
\* alone and digits without a unit included; no interval string with such a
\* token is accepted.
C22_MalformedTokensRejected ==
  /\ (op = "parseDurationString" /\ ~WellFormedToken(input)) => res.err # NoErr
  /\ (/\ Parsing /\ SlashCount(input) = 1
      /\ \E i \in 1..2 : HasPrefix(Split(input)[i], "P")
                         /\ ~WellFormedToken(Split(input)[i])) => res.err # NoErr

\* C23: for every non-negative duration d of a whole number of days the
\* encoder succeeds, and parseDurationString of its output returns d.
C23_EncodeThenDecode ==
  /\ (/\ op \in {"durationToISO8601", "durationToISO8601, parseDurationString"}
      /\ Val(args.duration) >= 0 /\ Val(args.duration) % Day = 0) => iso.err = NoErr
  /\ op = "durationToISO8601, parseDurationString" =>
       (res.err = NoErr /\ res.in = args.duration)

C23_Witness ==
  /\ op = "durationToISO8601, parseDurationString"
  /\ args.duration = Some(9 * Day)
  /\ iso.s = <<"P", "1", "W", "2", "D">>
  /\ res.in = Some(9 * Day)

---------------------------------------------------------------------------
(* Properties of the whole library *)

\* the string iso1 written for the Interval x is accepted by the parser,
\* decodes to x field by field, and is written again as iso1
ReparsesAs(x, iso1, back) ==
  /\ back.err = NoErr
  /\ back.in = x
  /\ PtrInterval_ISO8601(Val(back.in)) = iso1

\* C24: for every Interval the parser returned, the string ISO8601() writes
\* is accepted by the parser, the value parsed from it equals the Interval
\* field by field, and formatting that value yields the same string.
C24_FormatThenParse ==
  (op = "ParseIntervalISO8601" /\ res.err = NoErr /\ Formatted) =>
     (iso.err = NoErr /\ ReparsesAs(res.in, iso, ParseIntervalISO8601(iso.s)))

\* C25: for every Repeating the parser returned and every instant t,
\* Started(t) holds exactly when StartsAt() is absent or t is not before it,
\* and Ended(t) holds exactly when EndsAt() is present and t is after it.
C25_StartedAndEndedFollowTheBounds ==
  (RepeatingParsing /\ RepeatingQueried) =>
     /\ ans.Started <=> (IsNil(ans.StartsAt) \/ Val(at) >= Val(ans.StartsAt))
     /\ ans.Ended <=> (~IsNil(ans.EndsAt) /\ Val(at) > Val(ans.EndsAt))

\* the Interval x has exactly two of its three fields
TwoOfThreeFields(x) ==
  Cardinality({ f \in {"startsAt", "endsAt", "duration"} : ~IsNil(x[f]) }) = 2

\* C26: every Interval ParseIntervalISO8601 returns has exactly two of start,
\* end and duration, so StartsAt() and EndsAt() are both present, at most one
\* of them is derived, and no duration is stored next to two endpoints.
C26_ParsedIntervalHasOneShape ==
  (op = "ParseIntervalISO8601" /\ res.err = NoErr) =>
     /\ TwoOfThreeFields(Val(res.in))
     /\ ~IsNil(PtrInterval_StartsAt(Val(res.in)))
     /\ ~IsNil(PtrInterval_EndsAt(Val(res.in)))
     /\ ~(/\ PtrInterval_StartsAtDerivedFromDuration(Val(res.in))
          /\ PtrInterval_EndsAtDerivedFromDuration(Val(res.in)))

C26_Witness ==
  /\ op = "ParseIntervalISO8601"
  /\ input = Slash(<<"P", "1", "W">>, TsEnd)
  /\ res.err = NoErr
  /\ Val(res.in) = [startsAt |-> None, endsAt |-> Some(parseTimeString(TsEnd).t),
                    duration |-> Some(7 * Day)]
  /\ PtrInterval_StartsAtDerivedFromDuration(Val(res.in))
  /\ PtrInterval_StartsAt(Val(res.in)) = Some(parseTimeString(TsEnd).t - 7 * Day)

\* C29: whenever NewInterval returns an error, the Interval pointer it
\* returns with it is nil, so that no invalid Interval reaches its caller
\* together with an error.
C29_ErrorComesWithNilInterval ==
  (op = "NewInterval" /\ res.err # NoErr) => IsNil(res.in)

---------------------------------------------------------------------------
(* The RepeatingInterval that steps by its Duration field: the field is held
   in RepeatEvery, and StartsAt, EndsAt, Started and Ended read as those of
   the Repeating over the optional-field Interval *)

RepeatingInterval_Next(in, t) ==
  IF ~PtrRepeating_Started(in, t) THEN NextIs(PtrRepeating_StartsAt(in))
  ELSE IF PtrRepeating_Ended(in, t) THEN NextIs(None)
  ELSE IF IsNil(PtrRepeating_StartsAt(in)) THEN NextPanics
  ELSE IF in.RepeatEvery = 0 THEN NextPanics
  ELSE LET diff == TimeSub(t, Val(PtrRepeating_StartsAt(in)))
           mod == GoRem(diff, in.RepeatEvery)
           nxt == TimeAdd(t, in.RepeatEvery - mod)
       IN IF PtrRepeating_Ended(in, nxt) THEN NextIs(None) ELSE NextIs(Some(nxt))

BuildRepeatingInterval(startsAt, endsAt, duration, repetitions) ==
  /\ op = "init"
  /\ op' = "RepeatingInterval{Duration}"
  /\ input' = <<>>
  /\ args' = [startsAt |-> startsAt, endsAt |-> endsAt, duration |-> Some(duration)]
  /\ res' = [kind |-> "rptr", err |-> NoErr, stage |-> "literal",
             in |-> Some([Interval |-> [startsAt |-> startsAt, endsAt |-> endsAt,
                                        duration |-> None],
                          RepeatEvery |-> duration,
                          Repetitions |-> repetitions])]
  /\ at' = None /\ ans' = NoAns /\ iso' = NoIso

QueryRepeatingInterval(t) ==
  /\ op = "RepeatingInterval{Duration}"
  /\ at' = Some(t)
  /\ ans' = [Started |-> PtrRepeating_Started(Rep(res), t),
             Ended |-> PtrRepeating_Ended(Rep(res), t),
             In |-> PtrRepeating_In(Rep(res), t),
             StartsAt |-> PtrRepeating_StartsAt(Rep(res)),
             EndsAt |-> PtrRepeating_EndsAt(Rep(res)),
             Duration |-> RepDurationOf(res),
             Next |-> RepeatingInterval_Next(Rep(res), t).t,
             panic |-> RepeatingInterval_Next(Rep(res), t).panic]
  /\ UNCHANGED <<op, input, args, res, iso>>

NextRepeatingInterval ==
  \/ \E s \in Pointers(Instants), e \in Pointers(Instants), d \in StepDurations,
        n \in Pointers(Counts) : BuildRepeatingInterval(s, e, d, n)
  \/ \E t \in RepeatingQueryInstants(res) : QueryRepeatingInterval(t)
  \/ Reset

SpecRepeatingInterval == Init /\ [][NextRepeatingInterval]_vars

\* C27: for a Repeating whose repeatEvery is zero, Next(t) returns absent for
\* every instant t at which the series is started, and never fails with a
\* division by zero.
C27_ZeroStepHasNoNext ==
  (RepeatingQueried /\ RepeatEveryOf(res) = 0 /\ ans.Started /\ ~IsNil(ans.StartsAt)) =>
     (~ans.panic /\ IsNil(ans.Next))

---------------------------------------------------------------------------
(* The span of a counted series in signed 64-bit nanoseconds: an int64 is
   held as eight limbs of eight bits, the least significant first *)

Byte == 256

\* the limbs of a natural number below 2^31
Int64(n) ==
  <<n % Byte, (n \div Byte) % Byte, (n \div (Byte * Byte)) % Byte,
    n \div (Byte * Byte * Byte), 0, 0, 0, 0>>

\* time.Duration(u) of an unsigned 32-bit count
Int64OfUint32(u) ==
  <<u.lo % Byte, u.lo \div Byte, u.hi % Byte, u.hi \div Byte, 0, 0, 0, 0>>

Limbs(a, i) == IF i <= Len(a) THEN a[i] ELSE 0

RECURSIVE Column(_, _, _, _)
\* the sum of the limb products a[i] * b[k + 1 - i], ..., a[k] * b[1]
Column(a, b, k, i) ==
  IF i > k THEN 0 ELSE Limbs(a, i) * Limbs(b, k + 1 - i) + Column(a, b, k, i + 1)

RECURSIVE MulLimbs(_, _, _, _, _)
\* the limbs k..n of a * b, carry being what the limbs below k carried over
MulLimbs(a, b, k, carry, n) ==
  IF k > n THEN <<>>
  ELSE <<(Column(a, b, k, 1) + carry) % Byte>>
         \o MulLimbs(a, b, k + 1, (Column(a, b, k, 1) + carry) \div Byte, n)

\* a * b of two int64: the low 64 bits of the product
Int64Mul(a, b) == MulLimbs(a, b, 1, 0, 8)

\* an int64 read as a signed number is below zero
Int64Negative(a) == a[8] >= Byte \div 2

\* the nanoseconds of one tick of the model's clock
Tick == Int64(100 * 1000 * 1000)

\* a time.Duration of d ticks, d >= 0
DurationNanoseconds(d) == Int64Mul(Int64(d), Tick)

\* time.Duration(*in.Repetitions) * in.RepeatEvery
CountedSpan(repetitions, repeatEvery) ==
  Int64Mul(Int64OfUint32(repetitions), DurationNanoseconds(repeatEvery))

\* the counts a caller sets: small ones, and ones up to the largest uint32
WideCounts ==
  { [hi |-> h, lo |-> l] : h \in {0, 1, Limb - 1}, l \in {0, 1, 15250, 15251, Limb - 1} }

\* the caller asks a counted series for its bounds
QuerySpan ==
  /\ res.kind \in {"rptr", "rtag", "riso"}
  /\ ~IsNil(res.in)
  /\ ~IsNil(Rep(res).Repetitions)
  /\ RepeatEveryOf(res) >= 0
  /\ res.kind = "rptr" => (\/ PtrRepeating_isStartsAtBoundedByRepetitions(Rep(res))
                           \/ PtrRepeating_isEndsAtBoundedByRepetitions(Rep(res)))
  /\ at' = None
  /\ ans' = [Span |-> CountedSpan(Val(Rep(res).Repetitions), RepeatEveryOf(res))]
  /\ UNCHANGED <<op, input, args, res, iso>>

NextCounted ==
  \/ \E s \in Pointers(Instants), e \in Pointers(Instants), d \in StepDurations,
        n \in Pointers(WideCounts) : BuildPtrRepeating(s, e, d, n)
  \/ \E s \in Pointers(Instants), e \in Pointers(Instants), d \in Pointers(Durations),
        n \in Pointers(WideCounts) : BuildRepeating(s, e, d, n)
  \/ QuerySpan
  \/ Reset

SpecCounted == Init /\ [][NextCounted]_vars

\* the caller holds the span of a counted series
SpanQueried == "Span" \in DOMAIN ans

\* a * b of two int64 with no limb dropped
WideProduct(a, b) == MulLimbs(a, b, 1, 0, 16)

\* C30: for every Repeating with a count n in the uint32 range and
\* repeatEvery >= 0, n x repeatEvery in signed 64-bit nanoseconds does not
\* wrap around, so the bound derived from it lies on the right side of the
\* bound it is derived from.
C30_CountedSpanDoesNotWrap ==
  SpanQueried =>
     /\ ~Int64Negative(ans.Span)
     /\ WideProduct(Int64OfUint32(Val(Rep(res).Repetitions)),
                    DurationNanoseconds(RepeatEveryOf(res)))
          = ans.Span \o <<0, 0, 0, 0, 0, 0, 0, 0>>

===========================================================================
